---- MODULE Spec2Model ----
(***************************************************************************)
(* Model of the data pipeline of the Streamlit ERP dashboard:              *)
(*   sales.load_data / batch_convert_tw_dates   (record normalizer)        *)
(*   sales.fill_order_info                      (order-context filler)     *)
(*   get_product_summary and its two copies     (aggregator)               *)
(*   the three inventory joins                  (inventory joiner)         *)
(*   bc_products.load_data                      (inventory normalizer)     *)
(*                                                                         *)
(* Conventions.  A nullable cell is a tuple: <<>> is the missing value     *)
(* (None / NaN / NaT), <<v>> holds the value v.  A product code is         *)
(* <<type, text>> with type "str" or "int" (a spreadsheet cell read as     *)
(* text or as a number) and text a tuple of characters.  A table is a      *)
(* sequence of rows (records) in file order.  The variable done holds the  *)
(* names of the pipeline steps that have run.                              *)
(***************************************************************************)
EXTENDS Integers, Sequences, FiniteSets, TLC

VARIABLES
    done,             \* set of the steps that have run
    columns,          \* the columns present in the sales table
    orders,           \* input of fill_order_info (df)
    df_filled,        \* output of fill_order_info
    view,             \* the dashboard that renders: "sales", "fixed", "integrated"
    items,            \* the loaded sales line items the dashboard is given (df)
    code_column,      \* whether df has the 產品代號 column
    product_filter,   \* the text typed into the product-code filter box
    product_summary,  \* the product aggregate of the rendering dashboard
    outcome,          \* "ok", or "raised" when the dashboard step raised
    bc_df,            \* the inventory snapshot bc_products.load_data returned
    joined,           \* the product aggregate with the inventory joined to it
    date_series,      \* the 銷貨日期 column as read
    temp_dates,       \* the flexible parse of date_series (rule 1)
    dates_dt,         \* the 銷貨日期_dt column
    raw_col,          \* a 數量 column as pd.read_excel returns it
    sales_col,        \* the column after sales.load_data
    bc_qty,           \* the column after bc_products.load_data, read as 數量
    bc_margin,        \* the column after bc_products.load_data, read as 毛利率
    load_error,       \* the loaders that ended with an exception: "sales", "bc"
    again,            \* per loaded column, the column after the coercion steps ran on it again
    period_files,     \* the line items of the selected period files
    dfs,              \* the loaded period tables, in the order they were collected
    combined,         \* the concatenation of dfs
    pool_view,        \* the module that loads several files: "sales", "bc", "integrated"
    selected,         \* per selected file: can it be read
    status,           \* per selected file: the state of its load
    merged,           \* per selected file: how often its rows were added to the result
    phase,            \* where the loader is: "idle", "pool", "raising", "done", "aborted"
    cache_name,       \* the memo cache that is exercised
    cache,            \* its entries, the least recently used first
    now,              \* the time, in seconds
    returned,         \* the age of the value the last call got
    calls,            \* the number of calls made
    file_name,        \* the name of the selected file, a sequence of characters
    mod_time,         \* its last-modified time
    file_labels,      \* per view, the label derived for the file, if any
    sold_files,       \* the sales files selected for the unsold filter
    sold_product_codes, \* the product codes collected from them
    pending,          \* the submitted files whose result is not collected yet
    unsold_rows,      \* the rows the unsold filter shows
    unsold_outcome,   \* "none", "filtered", "unfiltered" or "raised"
    listing,          \* the names os.listdir gives for the inventory directory
    inventory_file,   \* the inventory file the sales dashboard picked, if any
    session,          \* st.session_state of the fixed dashboard
    inventory_dir,    \* the inventory directory the comparison reads
    screen,           \* the buttons the last run of the script drew
    clicked,          \* the button whose click started the pending run
    clicks,           \* the buttons the user clicked, in order
    file_version,     \* per loader, the version of the file at the followed path
    loader_cache,     \* per loader, the memoized entry of the followed path
    clock,            \* seconds since the start
    awaiting,         \* the loaders that have not loaded since the last refresh
    last_load,        \* what the last load_data call returned
    sales_dir,        \* the names in the "sales data" directory, newest first
    excel_files,      \* the listing the period selector was built from
    file_options      \* the selector's dict, as <<label, file>> pairs

vars == <<done, columns, orders, df_filled, view, items, code_column, product_filter,
          product_summary, outcome, bc_df, joined, date_series, temp_dates,
          dates_dt, raw_col, sales_col, bc_qty, bc_margin, load_error, again, period_files,
          dfs,
          combined, pool_view, selected, status, merged, phase, cache_name, cache,
          now, returned, calls, file_name, mod_time, file_labels, sold_files,
          sold_product_codes, pending, unsold_rows, unsold_outcome, listing,
          inventory_file, session, inventory_dir, screen, clicked, clicks,
          file_version, loader_cache, clock, awaiting, last_load,
          sales_dir, excel_files, file_options>>

fillVars == <<columns, orders, df_filled>>
aggVars == <<view, items, code_column, product_filter, product_summary, outcome>>
joinVars == <<bc_df, joined>>
dateVars == <<date_series, temp_dates, dates_dt>>
loadVars == <<raw_col, sales_col, bc_qty, bc_margin, load_error, again>>
periodVars == <<period_files, dfs, combined>>
poolVars == <<pool_view, selected, status, merged, phase>>
cacheVars == <<cache_name, cache, now, returned, calls>>
labelVars == <<file_name, mod_time, file_labels>>
unsoldVars == <<sold_files, sold_product_codes, pending, unsold_rows, unsold_outcome>>
latestVars == <<listing, inventory_file>>
compareVars == <<session, inventory_dir, screen, clicked, clicks>>
refreshVars == <<file_version, loader_cache, clock, awaiting, last_load>>
uploadVars == <<sales_dir, excel_files, file_options>>

\* the value the variables of the other pipeline stages hold while one stage
\* is exercised
IdleFill == columns = {} /\ orders = <<>> /\ df_filled = <<>>
IdleAgg ==
    /\ view = "sales" /\ items = <<>> /\ code_column = TRUE /\ product_filter = <<>>
    /\ product_summary = <<>> /\ outcome = "ok"
IdleJoin == bc_df = <<>> /\ joined = <<>>
IdleDates == date_series = <<>> /\ temp_dates = <<>> /\ dates_dt = <<>>
IdleLoad ==
    /\ raw_col = <<>> /\ sales_col = <<>> /\ bc_qty = <<>> /\ bc_margin = <<>>
    /\ load_error = {} /\ again = <<>>
IdlePeriods == period_files = <<>> /\ dfs = <<>> /\ combined = <<>>
IdlePool ==
    /\ pool_view = "sales" /\ selected = <<>> /\ status = <<>> /\ merged = <<>>
    /\ phase = "idle"
IdleCache ==
    /\ cache_name = "sales.load_data" /\ cache = <<>> /\ now = 0 /\ returned = <<>>
    /\ calls = 0
IdleLabel == file_name = <<>> /\ mod_time = <<>> /\ file_labels = <<>>
IdleLatest == listing = <<>> /\ inventory_file = <<>>
IdleCompare ==
    /\ session = <<>> /\ inventory_dir = <<>> /\ screen = {} /\ clicked = ""
    /\ clicks = <<>>
IdleRefresh ==
    /\ file_version = <<>> /\ loader_cache = <<>> /\ clock = 0 /\ awaiting = {}
    /\ last_load = <<>>
IdleUpload == sales_dir = <<>> /\ excel_files = <<>> /\ file_options = <<>>
IdleUnsold ==
    /\ sold_files = <<>> /\ sold_product_codes = {} /\ pending = {}
    /\ unsold_rows = <<>> /\ unsold_outcome = "none"

NULL == <<>>

Max(S) == CHOOSE x \in S : \A y \in S : y <= x

\* All sequences over S of length 0..n
RECURSIVE SeqsUpTo(_, _)
SeqsUpTo(S, n) ==
    IF n = 0 THEN {<<>>}
    ELSE LET shorter == SeqsUpTo(S, n - 1)
         IN  shorter \cup {Append(s, x) : s \in {t \in shorter : Len(t) = n - 1}, x \in S}

(***************************************************************************)
(* sales.fill_order_info                                                   *)
(*   order_id = 銷貨單號, customer = 客戶名稱 (order-level columns);       *)
(*   product_code = 產品代號 (line-level column, never filled).            *)
(***************************************************************************)
MaxRows == 3

OrderIds == {<<"S1">>, <<"S2">>}
Customers == {<<"X">>, <<"Y">>}
LineCodes == {<<"P1">>, NULL}

\* order_columns of the source, restricted to the columns the model carries
order_columns == {"order_id", "customer"}

\* A mutant of available_columns: every column of the table is filled
available_columns_every(cols) == cols

\* available_columns = [col for col in order_columns if col in df_filled.columns]
available_columns(cols) == order_columns \cap cols

\* valid_order_mask = ~df_filled['銷貨單號'].isna()
valid_order_mask(df) == [i \in 1..Len(df) |-> df[i].order_id # NULL]

\* A mutant of cumsum: the sum stops at one, so every order after the first
\* header row is in one group
cumsum_capped(mask) == [i \in DOMAIN mask |-> IF \E j \in 1..i : mask[j] THEN 1 ELSE 0]

\* Series.cumsum() of a boolean mask
cumsum(mask) == [i \in DOMAIN mask |-> Cardinality({j \in 1..i : mask[j]})]

\* A mutant of group_id: the grouping is forgotten, every row is in one group
group_id_nogroup(df, cols) == [i \in 1..Len(df) |-> 0]

\* group_id = valid_order_mask.cumsum() when 銷貨單號 is a column; the else
\* branch forward-fills without grouping, which is one group for all rows
group_id(df, cols) ==
    IF "order_id" \in cols THEN cumsum(valid_order_mask(df))
    ELSE [i \in 1..Len(df) |-> 0]

\* grp.ffill() inside groupby(group_id).transform: the value of row i is its
\* own when present, else the one carried from the previous row of its group
RECURSIVE ffill_at(_, _, _, _)
ffill_at(df, col, gid, i) ==
    IF df[i][col] # NULL THEN df[i][col]
    ELSE IF i = 1 THEN NULL
    ELSE IF gid[i - 1] # gid[i] THEN NULL
    ELSE ffill_at(df, col, gid, i - 1)

\* df_filled[col].astype(original_dtypes[col]): the filled column already has
\* the dtype it had (object stays object, float64 with NaN stays float64), so
\* the cast keeps every value
restore_dtype(v) == v

fill_order_info(df, cols) ==
    LET gid == group_id(df, cols)
        avail == available_columns(cols)
    IN  [i \in 1..Len(df) |->
            [c \in DOMAIN df[i] |->
                IF c \in avail THEN restore_dtype(ffill_at(df, c, gid, i))
                ELSE df[i][c]]]

\* The tables fill_order_info is given: a column that is not in the file
\* holds no value
OrderRows(cols) ==
    [order_id : IF "order_id" \in cols THEN OrderIds \cup {NULL} ELSE {NULL},
     customer : Customers \cup {NULL},
     product_code : LineCodes]

InitFill ==
    /\ done = {}
    /\ columns \in {{"order_id", "customer", "product_code"}, {"customer", "product_code"}}
    /\ orders \in SeqsUpTo(OrderRows(columns), MaxRows)
    /\ df_filled = <<>>
    /\ IdleAgg
    /\ IdleJoin
    /\ IdleDates
    /\ IdleLoad
    /\ IdlePeriods
    /\ IdlePool /\ IdleCache /\ IdleLabel /\ IdleUnsold /\ IdleLatest /\ IdleCompare /\ IdleRefresh /\ IdleUpload

FillOrderInfo ==
    /\ "fill" \notin done
    /\ df_filled' = fill_order_info(orders, columns)
    /\ done' = done \cup {"fill"}
    /\ UNCHANGED <<columns, orders>>
    /\ UNCHANGED <<aggVars, joinVars, dateVars, loadVars, periodVars, poolVars, cacheVars, labelVars, unsoldVars, latestVars, compareVars, refreshVars, uploadVars>>

NextFill == FillOrderInfo

SpecFill == InitFill /\ [][NextFill]_vars

\* the nearest preceding row of i whose order identifier is non-null (0: none)
HeaderOf(df, i) ==
    LET hs == {j \in 1..(i - 1) : df[j].order_id # NULL}
    IN  IF hs = {} THEN 0 ELSE Max(hs)

\* C1 as stated: after fill_order_info every order-level field of a row with a
\* null order identifier equals the field of the nearest preceding header row.
C1_FillEqualsHeader ==
    ("fill" \in done /\ "order_id" \in columns) =>
        \A i \in 1..Len(orders) :
            (orders[i].order_id = NULL /\ HeaderOf(orders, i) # 0) =>
                \A c \in available_columns(columns) :
                    df_filled[i][c] = df_filled[HeaderOf(orders, i)][c]

\* C1 amended: a field that is null in a continuation row takes the nearest
\* preceding non-null input value of that field among the rows of its own
\* order (from its header row on), and stays null when there is none; a field
\* the continuation row already holds keeps its own value.
C1_FillWithinOrder ==
    ("fill" \in done /\ "order_id" \in columns) =>
        \A i \in 1..Len(orders) :
            (orders[i].order_id = NULL /\ HeaderOf(orders, i) # 0) =>
                \A c \in available_columns(columns) :
                    LET h == HeaderOf(orders, i)
                        src == {j \in h..(i - 1) : orders[j][c] # NULL}
                    IN  df_filled[i][c] =
                            IF orders[i][c] # NULL THEN orders[i][c]
                            ELSE IF src = {} THEN NULL
                            ELSE orders[Max(src)][c]

\* C1 witness: a continuation row received its header's customer, and a later
\* order whose header has no customer kept the null although the order before
\* it has one.
C1_Witness ==
    /\ "fill" \in done
    /\ "order_id" \in columns
    /\ \E i \in 1..Len(orders) :
        /\ orders[i].order_id = NULL
        /\ orders[i].customer = NULL
        /\ HeaderOf(orders, i) # 0
        /\ df_filled[i].customer # NULL
        /\ df_filled[i].customer = orders[HeaderOf(orders, i)].customer
    /\ \E k \in 2..Len(orders) :
        /\ orders[k].order_id # NULL
        /\ orders[k].customer = NULL
        /\ df_filled[k - 1].customer # NULL
        /\ df_filled[k].customer = NULL

\* the rows of the order of row i: from its header row to the row before the
\* next header row; for a row before the first header row, the rows before
\* the first header row
OrderOf(df, i) ==
    LET first == IF df[i].order_id # NULL THEN i
                 ELSE IF HeaderOf(df, i) = 0 THEN 1 ELSE HeaderOf(df, i)
    IN  {j \in first..Len(df) : \A k \in (first + 1)..j : df[k].order_id = NULL}

\* C25: with the order-identifier column present, an order-level field that is
\* null in every row of an order is null in every row of it after filling,
\* and the rows before the first header row hold only values of those rows.
C25_NoFillAcrossOrders ==
    ("fill" \in done /\ "order_id" \in columns) =>
        \A i \in 1..Len(orders) :
            \A c \in available_columns(columns) :
                /\ (\A j \in OrderOf(orders, i) : orders[j][c] = NULL) =>
                        df_filled[i][c] = NULL
                /\ df_filled[i][c] # NULL =>
                        \E j \in OrderOf(orders, i) :
                            j <= i /\ orders[j][c] = df_filled[i][c]

\* an order without a customer follows an order with one and has a
\* continuation row, and a row before the first header row has no customer
C25_Witness ==
    /\ "fill" \in done /\ "order_id" \in columns
    /\ Len(orders) = 3
    /\ orders[1].customer # NULL
    /\ orders[2].order_id # NULL /\ orders[2].customer = NULL
    /\ orders[3].order_id = NULL /\ orders[3].customer = NULL
    /\ df_filled[2].customer = NULL /\ df_filled[3].customer = NULL

\* C22: fill_order_info returns as many rows as it is given, in the same
\* order, leaves every column that is not an order-level column as it is in
\* every row, keeps the cells that hold a value, and does not change the table
\* it is given.
C22_FillFrame ==
    /\ []("fill" \in done =>
            /\ Len(df_filled) = Len(orders)
            /\ \A i \in 1..Len(orders) :
                \A c \in DOMAIN orders[i] :
                    (c \notin order_columns \/ orders[i][c] # NULL) =>
                        df_filled[i][c] = orders[i][c])
    /\ [][orders' = orders]_vars

\* a table of three rows was filled: a cell of an order-level column changed
\* and a row without a product code still has none
C22_Witness ==
    /\ "fill" \in done
    /\ Len(orders) = 3
    /\ \E i \in 1..Len(orders) : df_filled[i].customer # orders[i].customer
    /\ \E i \in 2..Len(orders) :
        /\ orders[i].product_code = NULL
        /\ orders[i - 1].product_code # NULL
        /\ df_filled[i].product_code = NULL

(***************************************************************************)
(* The product aggregate (產品彙總表): get_product_summary of sales.py and  *)
(* its copies in fixed_sales_dashboard.py and integrated_module.py.        *)
(*   product_code = 產品代號, qty = 數量, subtotal = 小計,                  *)
(*   unit_price_qty = 單價（數量）.                                         *)
(* Amounts are integers; a quotient is kept exact as [num, den], where     *)
(* den = 0 stands for the NaN / inf of a division by zero.                 *)
(***************************************************************************)
MaxItems == 2

SA1 == <<"str", <<"A", "1">>>>
Sb1 == <<"str", <<"b", "1">>>>
S12 == <<"str", <<"1", "2">>>>
I12 == <<"int", <<"1", "2">>>>

\* the order groupby(sort=True) and Series sorting give the codes of the model
code_sort_order == <<I12, S12, SA1, Sb1>>

ItemCodes == {SA1, Sb1, NULL}
ItemQtys == {NULL, <<-1>>, <<1>>}
ItemSubtotals == {NULL, <<0>>, <<3>>}
Filters == {<<>>, <<"a">>, <<".", "1">>}

ItemRows == [product_code : ItemCodes, qty : ItemQtys, subtotal : ItemSubtotals]

\* str.lower() on the characters of the model
lower(ch) == IF ch = "A" THEN "a" ELSE IF ch = "B" THEN "b" ELSE ch

\* re.search(pat, text, flags=re.IGNORECASE): str.contains is called with its
\* default regex=True, so "." in the filter matches any character
re_search(pat, text) ==
    \E o \in 0..(Len(text) - Len(pat)) :
        \A k \in 1..Len(pat) :
            pat[k] = "." \/ lower(pat[k]) = lower(text[o + k])

\* one element of Series.str.contains(pat, case=False, na=False): an element
\* that is no string (a number, NaN) gives NaN, which na=False turns to False
str_contains(code, pat) ==
    /\ code # NULL
    /\ code[1] = "str"
    /\ re_search(pat, code[2])

\* The .str accessor exists on object columns only: a column read without a
\* single text cell is int64 / float64 and .str raises AttributeError
str_accessor_ok(df) ==
    Len(df) = 0 \/ \E i \in 1..Len(df) : df[i].product_code # NULL /\ df[i].product_code[1] = "str"

\* df[df['產品代號'].str.contains(product_filter, case=False, na=False)]
filter_rows(df, pat) ==
    SelectSeq(df, LAMBDA r : str_contains(r.product_code, pat))

\* A mutant of agg_sum: 'first' where 'sum' is meant
RECURSIVE agg_first(_, _, _)
agg_first(df, col, code) ==
    IF df = <<>> THEN 0
    ELSE IF Head(df).product_code = code /\ Head(df)[col] # NULL THEN Head(df)[col][1]
    ELSE agg_first(Tail(df), col, code)

\* groupby(...).agg('sum') of one column for one key: NaN cells are skipped
\* and a group without a value sums to 0
RECURSIVE agg_sum(_, _, _)
agg_sum(df, col, code) ==
    IF df = <<>> THEN 0
    ELSE (IF Head(df).product_code = code /\ Head(df)[col] # NULL
          THEN Head(df)[col][1] ELSE 0) + agg_sum(Tail(df), col, code)

\* the keys of groupby(['產品代號']): the distinct non-null codes, sorted
groupby_keys(df) ==
    SelectSeq(code_sort_order, LAMBDA c : \E i \in 1..Len(df) : df[i].product_code = c)

\* df_work.groupby(['產品代號'], as_index=False).agg(agg_dict)
groupby_agg(df) ==
    LET keys == groupby_keys(df)
    IN  [k \in 1..Len(keys) |->
            [product_code |-> keys[k],
             qty |-> agg_sum(df, "qty", keys[k]),
             subtotal |-> agg_sum(df, "subtotal", keys[k])]]

\* sort_values(by='小計', ascending=False): insertion of each row after the
\* rows that are not smaller
RECURSIVE sort_by_subtotal_desc(_)
sort_by_subtotal_desc(s) ==
    IF s = <<>> THEN <<>>
    ELSE LET rest == sort_by_subtotal_desc(Tail(s))
             r == Head(s)
             before == SelectSeq(rest, LAMBDA x : x.subtotal > r.subtotal)
             after == SelectSeq(rest, LAMBDA x : x.subtotal <= r.subtotal)
         IN  before \o <<r>> \o after

zero_price == [num |-> 0, den |-> 1]

\* A mutant of derived_unit_price: the guard tests for a non-zero quantity
derived_unit_price_nonzero(row) ==
    IF row.qty # 0 THEN [num |-> row.subtotal, den |-> row.qty] ELSE zero_price

\* 單價（數量）: 0.0 by default, 小計 / 數量 where 數量 > 0
derived_unit_price(row) ==
    IF row.qty > 0 THEN [num |-> row.subtotal, den |-> row.qty] ELSE zero_price

with_unit_price(summary) ==
    [k \in 1..Len(summary) |->
        [product_code |-> summary[k].product_code,
         qty |-> summary[k].qty,
         subtotal |-> summary[k].subtotal,
         unit_price_qty |-> derived_unit_price(summary[k])]]

\* sales.get_product_summary, single-period mode.  Any exception inside it is
\* caught and an empty table is returned.
get_product_summary(df, pat) ==
    IF pat # <<>> /\ ~str_accessor_ok(df) THEN <<>>
    ELSE LET df_work == IF pat # <<>> THEN filter_rows(df, pat) ELSE df
         IN  with_unit_price(sort_by_subtotal_desc(groupby_agg(df_work)))

\* the aggregation block of fixed_sales_dashboard.display_sales_dashboard and
\* of integrated_module.display_integrated_dashboard, given the filtered rows
inline_product_summary(df) ==
    with_unit_price(sort_by_subtotal_desc(groupby_agg(df)))

InitAgg ==
    /\ done = {}
    /\ IdleFill
    /\ view \in {"sales", "fixed", "integrated"}
    /\ items \in SeqsUpTo(ItemRows, MaxItems)
    /\ code_column \in BOOLEAN
    /\ ~code_column => \A i \in 1..Len(items) : items[i].product_code = NULL
    /\ product_filter \in Filters
    /\ product_summary = <<>>
    /\ outcome = "ok"
    /\ IdleJoin
    /\ IdleDates
    /\ IdleLoad
    /\ IdlePeriods
    /\ IdlePool /\ IdleCache /\ IdleLabel /\ IdleUnsold /\ IdleLatest /\ IdleCompare /\ IdleRefresh /\ IdleUpload

\* sales.display_sales_dashboard, lines 836-1034: the rows are filtered by the
\* dashboard (outside any try) and again inside get_product_summary.  Without
\* the 產品代號 column the filter of line 848 raises KeyError, and with no
\* filter get_product_summary returns its empty table.
SalesProductSummary ==
    /\ view = "sales"
    /\ "summary" \notin done
    /\ done' = done \cup {"summary"}
    /\ IF product_filter # <<>> /\ (~code_column \/ ~str_accessor_ok(items))
       THEN outcome' = "raised" /\ UNCHANGED product_summary
       ELSE IF ~code_column
       THEN outcome' = "ok" /\ product_summary' = <<>>
       ELSE /\ outcome' = "ok"
            /\ product_summary' =
                 get_product_summary(
                     IF product_filter # <<>> THEN filter_rows(items, product_filter) ELSE items,
                     product_filter)
    /\ UNCHANGED <<view, items, code_column, product_filter>>
    /\ UNCHANGED <<fillVars, joinVars, dateVars, loadVars, periodVars, poolVars, cacheVars, labelVars, unsoldVars, latestVars, compareVars, refreshVars, uploadVars>>

\* fixed_sales_dashboard.display_sales_dashboard, lines 113-181.  Without the
\* 產品代號 column the filter or the groupby raises KeyError.  With no
\* group at all, dropna(axis=1, how='all') drops every column of the empty
\* aggregate and sort_values(by='小計') raises KeyError.
FixedProductSummary ==
    /\ view = "fixed"
    /\ "summary" \notin done
    /\ done' = done \cup {"summary"}
    /\ LET df_products_filtered ==
               IF product_filter # <<>> THEN filter_rows(items, product_filter) ELSE items
       IN  IF \/ ~code_column
              \/ product_filter # <<>> /\ ~str_accessor_ok(items)
              \/ groupby_keys(df_products_filtered) = <<>>
           THEN outcome' = "raised" /\ UNCHANGED product_summary
           ELSE /\ outcome' = "ok"
                /\ product_summary' = inline_product_summary(df_products_filtered)
    /\ UNCHANGED <<view, items, code_column, product_filter>>
    /\ UNCHANGED <<fillVars, joinVars, dateVars, loadVars, periodVars, poolVars, cacheVars, labelVars, unsoldVars, latestVars, compareVars, refreshVars, uploadVars>>

\* integrated_module.display_integrated_dashboard, lines 364-514.  Without
\* the 產品代號 column the filter of line 372 raises KeyError, and with no
\* filter the else branch of line 512 builds the empty table.
IntegratedProductSummary ==
    /\ view = "integrated"
    /\ "summary" \notin done
    /\ done' = done \cup {"summary"}
    /\ IF product_filter # <<>> /\ (~code_column \/ ~str_accessor_ok(items))
       THEN outcome' = "raised" /\ UNCHANGED product_summary
       ELSE IF ~code_column
       THEN outcome' = "ok" /\ product_summary' = <<>>
       ELSE /\ outcome' = "ok"
            /\ product_summary' =
                 inline_product_summary(
                     IF product_filter # <<>> THEN filter_rows(items, product_filter) ELSE items)
    /\ UNCHANGED <<view, items, code_column, product_filter>>
    /\ UNCHANGED <<fillVars, joinVars, dateVars, loadVars, periodVars, poolVars, cacheVars, labelVars, unsoldVars, latestVars, compareVars, refreshVars, uploadVars>>

NextAgg == SalesProductSummary \/ FixedProductSummary \/ IntegratedProductSummary

SpecAgg == InitAgg /\ [][NextAgg]_vars

\* the line items that contribute: all of them, or with a filter those whose
\* code the filter matches
Contributing(df, pat) ==
    {i \in 1..Len(df) : pat = <<>> \/ str_contains(df[i].product_code, pat)}

RECURSIVE SumCells(_, _, _)
SumCells(df, col, rowset) ==
    IF rowset = {} THEN 0
    ELSE LET i == CHOOSE x \in rowset : TRUE
         IN  (IF df[i][col] = NULL THEN 0 ELSE df[i][col][1])
                 + SumCells(df, col, rowset \ {i})

\* C2: every product code of the filtered line items has exactly one aggregate
\* row, whose 小計 and 數量 are the sums over exactly the filtered rows with
\* that code.
C2_AggregateSums ==
    ("summary" \in done /\ outcome = "ok") =>
        \A i \in Contributing(items, product_filter) :
            items[i].product_code # NULL =>
                LET p == items[i].product_code
                    mine == {j \in Contributing(items, product_filter) : items[j].product_code = p}
                    hits == {k \in 1..Len(product_summary) : product_summary[k].product_code = p}
                IN  /\ Cardinality(hits) = 1
                    /\ \A k \in hits :
                        /\ product_summary[k].subtotal = SumCells(items, "subtotal", mine)
                        /\ product_summary[k].qty = SumCells(items, "qty", mine)

\* C2 witness: two filtered rows of one product were summed while a row the
\* filter rejects was left out.
C2_Witness ==
    /\ "summary" \in done
    /\ outcome = "ok"
    /\ product_filter # <<>>
    /\ \E i, j \in Contributing(items, product_filter) :
        /\ i # j
        /\ items[i].product_code = items[j].product_code
        /\ items[i].subtotal = <<3>>
        /\ items[j].subtotal = <<3>>
        /\ \E k \in 1..Len(product_summary) :
            /\ product_summary[k].product_code = items[i].product_code
            /\ product_summary[k].subtotal = 6

\* C3: in every aggregate row, 單價（數量） times 數量 is 小計 when 數量 > 0,
\* and 單價（數量） is exactly 0 (no NaN) when 數量 <= 0.
C3_DerivedPrice ==
    ("summary" \in done /\ outcome = "ok") =>
        \A k \in 1..Len(product_summary) :
            LET r == product_summary[k]
            IN  /\ r.unit_price_qty.den # 0
                /\ r.qty > 0 => r.unit_price_qty.num * r.qty = r.subtotal * r.unit_price_qty.den
                /\ r.qty <= 0 => r.unit_price_qty.num = 0

\* C3 witness: one aggregate row with a positive quantity and a price that is
\* no integer, and one with a negative quantity and a non-zero subtotal.
C3_Witness ==
    /\ "summary" \in done
    /\ outcome = "ok"
    /\ \E k \in 1..Len(product_summary) :
        /\ product_summary[k].qty < 0
        /\ product_summary[k].subtotal = 3
        /\ product_summary[k].unit_price_qty = zero_price
    /\ \E k \in 1..Len(product_summary) :
        /\ product_summary[k].qty > 0
        /\ product_summary[k].subtotal = 3
        /\ product_summary[k].unit_price_qty = [num |-> 3, den |-> product_summary[k].qty]

(***************************************************************************)
(* The inventory joins: the 庫存 column of sales.display_sales_dashboard   *)
(* and of integrated_module.display_integrated_dashboard (a dict lookup),  *)
(* and the merge of fixed_sales_dashboard (數量_庫存, 庫存差異).            *)
(* bc_df is the snapshot bc_products.load_data returned: 產品代號 and an   *)
(* integer 數量 per record.                                                *)
(***************************************************************************)
MaxInv == 2

JoinCodes == {S12, I12, SA1}
JoinItemRows == [product_code : JoinCodes, qty : {<<3>>}, subtotal : {<<0>>}]
InvRows == [product_code : JoinCodes, qty : {0, 2, 5}]

\* Series.astype(str) on a product code: the text of the cell, typed as text
to_text(code) == <<"str", code[2]>>

\* inventory_map = dict(zip(bc_df['產品代號'], bc_df['數量'])): keys are the
\* cells as read (a number and a text never compare equal), and a later
\* record of the same key replaces the earlier one.  <<>> when no key matches.
inventory_map(inv, code) ==
    LET js == {j \in 1..Len(inv) : inv[j].product_code = code}
    IN  IF js = {} THEN NULL ELSE <<inv[Max(js)].qty>>

\* A mutant of fillna_zero: the missing stock is filled with 1
fillna_one(cell) == IF cell = NULL THEN 1 ELSE cell[1]

\* .fillna(0) followed by the cast to int
fillna_zero(cell) == IF cell = NULL THEN 0 ELSE cell[1]

\* product_summary['庫存'] = product_summary['產品代號'].map(inventory_map)
\*                              .fillna(0).astype(float).astype(int)
map_inventory(summary, inv) ==
    [k \in 1..Len(summary) |->
        [product_code |-> summary[k].product_code,
         qty |-> summary[k].qty,
         on_hand |-> fillna_zero(inventory_map(inv, summary[k].product_code))]]

\* A mutant of stock_difference: the operands are swapped
stock_difference_swapped(on_hand, qty) == qty - on_hand

\* merged_df['庫存差異'] = merged_df['數量_庫存'] - merged_df['數量']
stock_difference(on_hand, qty) == on_hand - qty

\* the rows a left merge gives for one left row: one per matching right row
\* in right order, or a single row with a missing right side
RECURSIVE merge_matches(_, _)
merge_matches(row, inv) ==
    IF inv = <<>> THEN <<>>
    ELSE (IF to_text(Head(inv).product_code) = to_text(row.product_code)
          THEN <<<<Head(inv).qty>>>> ELSE <<>>) \o merge_matches(row, Tail(inv))

merge_one(row, inv) ==
    LET ms == merge_matches(row, inv)
        cells == IF ms = <<>> THEN <<NULL>> ELSE ms
    IN  [m \in 1..Len(cells) |->
            [product_code |-> to_text(row.product_code),
             qty |-> row.qty,
             on_hand |-> fillna_zero(cells[m]),
             stock_diff |-> stock_difference(fillna_zero(cells[m]), row.qty)]]

\* original_product_summary.merge(bc_df[['產品代號', '數量']], on='產品代號',
\*     how='left', suffixes=('', '_庫存')) with both keys cast to str, then
\* 數量_庫存 filled with 0 and 庫存差異 added
RECURSIVE merge_left(_, _)
merge_left(summary, inv) ==
    IF summary = <<>> THEN <<>>
    ELSE merge_one(Head(summary), inv) \o merge_left(Tail(summary), inv)

InitJoin ==
    /\ done = {}
    /\ IdleFill
    /\ view \in {"sales", "fixed", "integrated"}
    /\ items \in SeqsUpTo(JoinItemRows, MaxItems)
    /\ code_column = TRUE
    /\ product_filter = <<>>
    /\ product_summary = <<>>
    /\ outcome = "ok"
    /\ bc_df \in SeqsUpTo(InvRows, MaxInv)
    /\ joined = <<>>
    /\ IdleDates
    /\ IdleLoad
    /\ IdlePeriods
    /\ IdlePool /\ IdleCache /\ IdleLabel /\ IdleUnsold /\ IdleLatest /\ IdleCompare /\ IdleRefresh /\ IdleUpload

\* sales.display_sales_dashboard, lines 794-834 and 1036-1041: inventory_map
\* stays empty for an empty snapshot
SalesInventoryColumn ==
    /\ view = "sales"
    /\ "summary" \in done /\ outcome = "ok"
    /\ "join" \notin done
    /\ done' = done \cup {"join"}
    /\ joined' = map_inventory(product_summary, bc_df)
    /\ UNCHANGED <<bc_df, fillVars, aggVars, dateVars, loadVars, periodVars, poolVars, cacheVars, labelVars, unsoldVars, latestVars, compareVars, refreshVars, uploadVars>>

\* integrated_module.display_integrated_dashboard, lines 516-529
IntegratedInventoryColumn ==
    /\ view = "integrated"
    /\ "summary" \in done /\ outcome = "ok"
    /\ "join" \notin done
    /\ done' = done \cup {"join"}
    /\ joined' = map_inventory(product_summary, bc_df)
    /\ UNCHANGED <<bc_df, fillVars, aggVars, dateVars, loadVars, periodVars, poolVars, cacheVars, labelVars, unsoldVars, latestVars, compareVars, refreshVars, uploadVars>>

\* fixed_sales_dashboard.display_sales_dashboard, lines 259-318: an empty
\* snapshot is reported as a load error and nothing is merged
FixedInventoryMerge ==
    /\ view = "fixed"
    /\ "summary" \in done /\ outcome = "ok"
    /\ "join" \notin done
    /\ bc_df # <<>>
    /\ done' = done \cup {"join"}
    /\ joined' = merge_left(product_summary, bc_df)
    /\ UNCHANGED <<bc_df, fillVars, aggVars, dateVars, loadVars, periodVars, poolVars, cacheVars, labelVars, unsoldVars, latestVars, compareVars, refreshVars, uploadVars>>

NextJoin ==
    \/ SalesProductSummary
    \/ FixedProductSummary
    \/ IntegratedProductSummary
    \/ SalesInventoryColumn
    \/ IntegratedInventoryColumn
    \/ FixedInventoryMerge

SpecJoin == InitJoin /\ [][NextJoin]_vars

\* the key the join of the rendering dashboard compares: the text of the code
\* in the fixed dashboard, the cell as read in the other two
join_key(code) == IF view = "fixed" THEN to_text(code) ELSE code

\* the snapshot records the join of the rendering dashboard matches with code
Matching(code) ==
    {j \in 1..Len(bc_df) : join_key(bc_df[j].product_code) = join_key(code)}

\* the snapshot records whose product code has the same text as code
SameText(code) ==
    {j \in 1..Len(bc_df) : to_text(bc_df[j].product_code) = to_text(code)}

\* C4: the join yields exactly one reconciled row per aggregate row, also for
\* a snapshot in which a product code occurs more than once.
C4_OneRowPerAggregate ==
    "join" \in done =>
        /\ Len(joined) = Len(product_summary)
        /\ \A k \in 1..Len(joined) :
            /\ to_text(joined[k].product_code) = to_text(product_summary[k].product_code)
            /\ joined[k].qty = product_summary[k].qty

\* C5 as stated: a joined row's on-hand quantity is 0 if and only if its
\* product code is absent from the inventory snapshot.
C5_ZeroIffAbsent ==
    "join" \in done =>
        \A k \in 1..Len(joined) :
            joined[k].on_hand = 0 <=> Matching(joined[k].product_code) = {}

\* C5 amended: a joined row whose product code is absent from the snapshot
\* has on-hand quantity 0, and a non-zero on-hand quantity is the quantity of
\* a snapshot record of that code (a code that is present with quantity 0
\* gives 0 as well).
C5_AbsentGivesZero ==
    "join" \in done =>
        \A k \in 1..Len(joined) :
            /\ Matching(joined[k].product_code) = {} => joined[k].on_hand = 0
            /\ joined[k].on_hand # 0 =>
                 \E j \in Matching(joined[k].product_code) : bc_df[j].qty = joined[k].on_hand

\* C5 witness: one joined row whose code is absent and holds 0, and one whose
\* code is present with a positive quantity and holds it.
C5_Witness ==
    /\ "join" \in done
    /\ \E k \in 1..Len(joined) :
        /\ SameText(joined[k].product_code) = {}
        /\ joined[k].on_hand = 0
    /\ \E k \in 1..Len(joined) :
        /\ Matching(joined[k].product_code) # {}
        /\ joined[k].on_hand > 0

C7_KeysComparedAsText ==
    "join" \in done =>
        \A k \in 1..Len(joined) :
            SameText(joined[k].product_code) # {} =>
                \E j \in SameText(joined[k].product_code) : joined[k].on_hand = bc_df[j].qty

(***************************************************************************)
(* sales.load_data: batch_convert_tw_dates on the 銷貨日期 column.          *)
(* A date cell is [sep, f]: the separator of the text and its three        *)
(* numeric fields in text order ("112.01.15" is sep ".", f <<112, 1, 15>>; *)
(* "20250110" is sep "c", the compact form).  sep "" is a missing cell and *)
(* sep "x" a text that is no date.  A date is <<[y, m, d]>>, NaT is <<>>.  *)
(***************************************************************************)
MaxDates == 2

DateCells ==
    { [sep |-> ".", f |-> <<112, 1, 15>>],     \* "112.01.15"
      [sep |-> ".", f |-> <<99, 1, 15>>],      \* "99.01.15"
      [sep |-> ".", f |-> <<112, 2, 30>>],     \* "112.02.30"
      [sep |-> ".", f |-> <<2023, 1, 15>>],    \* "2023.01.15"
      [sep |-> "-", f |-> <<2025, 1, 10>>],    \* "2025-01-10"
      [sep |-> "/", f |-> <<2025, 1, 10>>],    \* "2025/01/10"
      [sep |-> "/", f |-> <<13, 1, 2025>>],    \* "13/01/2025"
      [sep |-> "/", f |-> <<1, 2, 2025>>],     \* "01/02/2025"
      [sep |-> "c", f |-> <<2025, 1, 10>>],    \* "20250110"
      [sep |-> "x", f |-> <<0, 0, 0>>],        \* "abc"
      [sep |-> "", f |-> <<0, 0, 0>>] }        \* missing

NaT == <<>>

\* years + 1911  # ROC to CE
RocOffset == 1911

is_leap(y) == (y % 4 = 0 /\ y % 100 # 0) \/ y % 400 = 0

days_in_month(y, m) ==
    IF m \in {4, 6, 9, 11} THEN 30
    ELSE IF m = 2 THEN (IF is_leap(y) THEN 29 ELSE 28)
    ELSE 31

\* a datetime64[ns] value of pandas: a calendar date within the years a
\* nanosecond timestamp can hold; anything else is NaT under errors='coerce'
mk_date(y, m, d) ==
    IF /\ y >= 1678 /\ y <= 2261
       /\ m >= 1 /\ m <= 12
       /\ d >= 1 /\ d <= days_in_month(y, m)
    THEN <<[y |-> y, m |-> m, d |-> d]>>
    ELSE NaT

four_digits(n) == n >= 1000 /\ n <= 9999

\* %y of strptime and the two-digit year of dateutil
two_digit_year(yy) == IF yy >= 69 THEN 1900 + yy ELSE 2000 + yy

\* pd.to_datetime(strs, format=fmt, errors='coerce') on one cell
strptime(cell, fmt) ==
    LET f == cell.f
    IN  IF fmt = "%Y-%m-%d" /\ cell.sep = "-" /\ four_digits(f[1]) THEN mk_date(f[1], f[2], f[3])
        ELSE IF fmt = "%Y/%m/%d" /\ cell.sep = "/" /\ four_digits(f[1]) THEN mk_date(f[1], f[2], f[3])
        ELSE IF fmt = "%d/%m/%Y" /\ cell.sep = "/" /\ four_digits(f[3]) THEN mk_date(f[3], f[2], f[1])
        ELSE IF fmt = "%m/%d/%Y" /\ cell.sep = "/" /\ four_digits(f[3]) THEN mk_date(f[3], f[1], f[2])
        ELSE IF fmt = "%Y%m%d" /\ cell.sep = "c" THEN mk_date(f[1], f[2], f[3])
        ELSE IF fmt = "%y.%m.%d" /\ cell.sep = "." /\ f[1] < 100 THEN mk_date(two_digit_year(f[1]), f[2], f[3])
        ELSE IF fmt = "%Y.%m.%d" /\ cell.sep = "." /\ four_digits(f[1]) THEN mk_date(f[1], f[2], f[3])
        ELSE NaT

\* the parse pd.to_datetime falls back to when it infers no format: dateutil
\* on the single cell.  A dotted text whose first field exceeds 31 is read
\* year first (a field of three digits is the year itself: "112.01.15" is
\* the year 112, which no timestamp holds); a/b/YYYY is month first unless
\* the first field cannot be a month.
dateutil_parse(cell) ==
    LET f == cell.f
    IN  IF cell.sep = "-" /\ four_digits(f[1]) THEN mk_date(f[1], f[2], f[3])
        ELSE IF cell.sep = "/" /\ four_digits(f[1]) THEN mk_date(f[1], f[2], f[3])
        ELSE IF cell.sep = "/" /\ four_digits(f[3]) THEN
            (IF f[1] <= 12 THEN mk_date(f[3], f[1], f[2]) ELSE mk_date(f[3], f[2], f[1]))
        ELSE IF cell.sep = "c" THEN mk_date(f[1], f[2], f[3])
        ELSE IF cell.sep = "." /\ f[1] > 31 THEN
            mk_date(IF f[1] < 100 THEN two_digit_year(f[1]) ELSE f[1], f[2], f[3])
        ELSE NaT

\* the formats pd.to_datetime may infer from the first non-missing cell
\* ("none": no format, every cell goes to dateutil on its own).  For a dotted
\* text the inference depends on the pandas build: both outcomes are kept.
guess_datetime_format(cell) ==
    LET f == cell.f
    IN  IF cell.sep = "-" /\ four_digits(f[1]) THEN {"%Y-%m-%d"}
        ELSE IF cell.sep = "/" /\ four_digits(f[1]) THEN {"%Y/%m/%d"}
        ELSE IF cell.sep = "/" /\ four_digits(f[3]) THEN
            (IF f[1] <= 12 THEN {"%m/%d/%Y"} ELSE {"%d/%m/%Y"})
        ELSE IF cell.sep = "c" THEN {"%Y%m%d"}
        ELSE IF cell.sep = "." /\ f[1] > 31 /\ f[1] < 100 THEN {"%y.%m.%d", "none"}
        ELSE IF cell.sep = "." /\ four_digits(f[1]) THEN {"%Y.%m.%d", "none"}
        ELSE {"none"}

\* the formats the flexible parse of a whole series may run with
series_formats(series) ==
    LET present == {i \in 1..Len(series) : series[i].sep # ""}
    IN  IF present = {} THEN {"none"}
        ELSE guess_datetime_format(series[CHOOSE i \in present : \A j \in present : i <= j])

\* 1. temp_dates = pd.to_datetime(date_series, errors='coerce')
to_datetime_flexible(series, fmt) ==
    [i \in 1..Len(series) |->
        IF fmt = "none" THEN dateutil_parse(series[i]) ELSE strptime(series[i], fmt)]

\* str.contains on date_strs
str_has(cell, ch) == cell.sep = ch

\* 2. the ROC parse of one cell: split on ".", year + 1911
tw_parse(cell) ==
    IF str_has(cell, ".") THEN mk_date(cell.f[1] + RocOffset, cell.f[2], cell.f[3]) ELSE NaT

\* rule_tw as it would be with the `& result.isna()` of rules 3 and 4 in its mask
rule_tw_guarded(series, result) ==
    [i \in 1..Len(series) |->
        IF result[i] = NaT /\ tw_parse(series[i]) # NaT THEN tw_parse(series[i]) ELSE result[i]]

\* 2. result[mask_tw.index[mask_tw][valid_dates_mask]] = dates[valid_dates_mask]:
\* mask_tw does not look at result
rule_tw(series, result) ==
    [i \in 1..Len(series) |->
        IF tw_parse(series[i]) # NaT THEN tw_parse(series[i]) ELSE result[i]]

\* 3. and 4.: mask = date_strs.str.contains(ch) & result.isna()
rule_format(series, result, ch, fmt) ==
    [i \in 1..Len(series) |->
        IF str_has(series[i], ch) /\ result[i] = NaT /\ strptime(series[i], fmt) # NaT
        THEN strptime(series[i], fmt) ELSE result[i]]

\* 5. one pass of the loop over formats_to_try: mask_remaining was taken
\* before the loop and is not taken again
rule_fallback(series, result, mask_remaining, fmt) ==
    [i \in 1..Len(series) |->
        IF mask_remaining[i] /\ strptime(series[i], fmt) # NaT
        THEN strptime(series[i], fmt) ELSE result[i]]

batch_convert_tw_dates(series, temp) ==
    LET result0 == [i \in 1..Len(series) |-> NaT]
        result1 == [i \in 1..Len(series) |-> IF temp[i] # NaT THEN temp[i] ELSE result0[i]]
        result2 == rule_tw(series, result1)
        result3 == rule_format(series, result2, "-", "%Y-%m-%d")
        result4 == rule_format(series, result3, "/", "%Y/%m/%d")
        mask_remaining == [i \in 1..Len(series) |-> result4[i] = NaT /\ series[i].sep # ""]
        result5a == rule_fallback(series, result4, mask_remaining, "%d/%m/%Y")
        result5b == rule_fallback(series, result5a, mask_remaining, "%m/%d/%Y")
        result5c == rule_fallback(series, result5b, mask_remaining, "%Y%m%d")
    IN  result5c

InitDates ==
    /\ done = {}
    /\ IdleFill /\ IdleAgg /\ IdleJoin
    /\ date_series \in SeqsUpTo(DateCells, MaxDates)
    /\ temp_dates = <<>>
    /\ dates_dt = <<>>
    /\ IdleLoad
    /\ IdlePeriods
    /\ IdlePool /\ IdleCache /\ IdleLabel /\ IdleUnsold /\ IdleLatest /\ IdleCompare /\ IdleRefresh /\ IdleUpload

\* df['銷貨日期_dt'] = batch_convert_tw_dates(df['銷貨日期'])
ConvertDates ==
    /\ "dates" \notin done
    /\ done' = done \cup {"dates"}
    /\ \E fmt \in series_formats(date_series) :
        /\ temp_dates' = to_datetime_flexible(date_series, fmt)
        /\ dates_dt' = batch_convert_tw_dates(date_series, temp_dates')
    /\ UNCHANGED <<date_series, fillVars, aggVars, joinVars, loadVars, periodVars, poolVars, cacheVars, labelVars, unsoldVars, latestVars, compareVars, refreshVars, uploadVars>>

NextDates == ConvertDates

SpecDates == InitDates /\ [][NextDates]_vars

\* the results of the rules on one cell, in priority order
RuleResults(i) ==
    <<temp_dates[i],
      tw_parse(date_series[i]),
      IF str_has(date_series[i], "-") THEN strptime(date_series[i], "%Y-%m-%d") ELSE NaT,
      IF str_has(date_series[i], "/") THEN strptime(date_series[i], "%Y/%m/%d") ELSE NaT,
      strptime(date_series[i], "%d/%m/%Y"),
      strptime(date_series[i], "%m/%d/%Y"),
      strptime(date_series[i], "%Y%m%d")>>

FirstSuccess(rs) ==
    LET ok == {k \in 1..Len(rs) : rs[k] # NaT}
    IN  IF ok = {} THEN NaT ELSE rs[CHOOSE k \in ok : \A n \in ok : k <= n]

\* C8: the final date of every value is the result of the highest-priority
\* rule that succeeds on it; a later rule never overwrites an earlier one.
C8_FirstRuleWins ==
    "dates" \in done =>
        \A i \in 1..Len(date_series) : dates_dt[i] = FirstSuccess(RuleResults(i))

\* a date of the calendar, whatever its year
calendar_date(y, m, d) ==
    y >= 1 /\ m >= 1 /\ m <= 12 /\ d >= 1 /\ d <= days_in_month(y, m)

MaxCells == 2

Txt(chars) == [k |-> "text", v |-> chars]
Num(n) == [k |-> "num", v |-> <<n>>]
Missing == [k |-> "nan", v |-> <<>>]

RawCells ==
    { Txt(<<"1", ",", "0", "0", "0">>),    \* "1,000"
      Txt(<<"a", "b", "c">>),              \* "abc"
      Txt(<<>>),                           \* ""
      Txt(<<"-", "5">>),                   \* "-5"
      Txt(<<"2", ".", "5">>),              \* "2.5"
      Txt(<<"*", "*", "*", ".", "*", "*">>), \* "***.**"
      Txt(<<"i", "n", "f">>),              \* "inf"
      Num(30),                             \* 3.0
      Num(0),                              \* 0.0
      Missing }

Digits == <<"0", "1", "2", "3", "4", "5", "6", "7", "8", "9">>

is_digit(ch) == \E d \in 1..Len(Digits) : Digits[d] = ch

digit_value(ch) == (CHOOSE d \in 1..Len(Digits) : Digits[d] = ch) - 1

RECURSIVE format_nat(_)
format_nat(n) ==
    IF n < 10 THEN <<Digits[n + 1]>>
    ELSE format_nat(n \div 10) \o <<Digits[(n % 10) + 1]>>

\* str(x) of a float
format_float(t) ==
    (IF t < 0 THEN <<"-">> ELSE <<>>)
        \o format_nat((IF t < 0 THEN -t ELSE t) \div 10)
        \o <<".">>
        \o format_nat((IF t < 0 THEN -t ELSE t) % 10)

\* Series.astype(str) on one cell: NaN becomes the text "nan"
astype_str(cell) ==
    IF cell.k = "text" THEN cell.v
    ELSE IF cell.k = "int"
    THEN (IF cell.v[1] < 0 THEN <<"-">> ELSE <<>>)
            \o format_nat((IF cell.v[1] < 0 THEN -cell.v[1] ELSE cell.v[1]) \div 10)
    ELSE IF cell.k = "num" /\ Len(cell.v) = 2
    THEN (IF cell.v[1] < 0 THEN <<"-">> ELSE <<>>) \o <<"i", "n", "f">>
    ELSE IF cell.k = "num" THEN format_float(cell.v[1])
    ELSE <<"n", "a", "n">>

\* A mutant of strip_commas: the separators are left in the text
strip_commas_kept(chars) == chars

\* .str.replace(',', '')
strip_commas(chars) == SelectSeq(chars, LAMBDA ch : ch # ",")

\* .replace('', '0'): a whole-cell replacement of the empty text
replace_empty(chars) == IF chars = <<>> THEN <<"0">> ELSE chars

RECURSIVE nat_value(_)
nat_value(chars) ==
    IF chars = <<>> THEN 0
    ELSE 10 * nat_value(SubSeq(chars, 1, Len(chars) - 1)) + digit_value(chars[Len(chars)])

all_digits(chars) == chars # <<>> /\ \A i \in 1..Len(chars) : is_digit(chars[i])

Inf == <<1, 0>>
NegInf == <<-1, 0>>

\* np.isfinite on a cell that holds a float
is_finite(cell) == Len(cell) # 2

\* pd.to_numeric(text, errors='coerce') on one cell: an optional sign, digits
\* and at most one decimal, or the word inf, which is the float infinity;
\* every other text (also "" and "nan") is NaN
to_numeric(chars) ==
    LET neg == chars # <<>> /\ chars[1] = "-"
        body == IF neg THEN Tail(chars) ELSE chars
        dots == {i \in 1..Len(body) : body[i] = "."}
        whole == IF dots = {} THEN body ELSE SubSeq(body, 1, Max(dots) - 1)
        frac == IF dots = {} THEN <<"0">> ELSE SubSeq(body, Max(dots) + 1, Len(body))
        mag == 10 * nat_value(whole) + nat_value(frac)
    IN  IF body = <<"i", "n", "f">> THEN (IF neg THEN NegInf ELSE Inf)
        ELSE IF Cardinality(dots) <= 1 /\ all_digits(whole) /\ all_digits(frac) /\ Len(frac) = 1
        THEN <<IF neg THEN -mag ELSE mag>>
        ELSE NULL

\* convert_numeric_col of sales.load_data on one cell
convert_numeric_col(cell) == to_numeric(strip_commas(replace_empty(astype_str(cell))))

\* df[col].dtype == 'object': the column holds at least one text cell
is_object_dtype(col) == \E i \in 1..Len(col) : col[i].k = "text"

\* A mutant of as_float: the cell of an integer column is not taken as a number
as_float_int_dropped(cell) == IF cell.k = "num" THEN cell.v ELSE NULL

\* the cell of a column that pandas holds with a numeric dtype
as_float(cell) == IF cell.k \in {"num", "int"} THEN cell.v ELSE NULL

\* the dtype narrowing of sales.load_data (lines 173-218): a column with NaN
\* is left alone; a column of whole numbers becomes an integer column and
\* another one float32, which holds the halves of the model exactly
optimize_dtype(col) == col

\* the column after lines 40-57 of sales.load_data: only object columns are
\* converted
sales_converted(col) ==
    IF is_object_dtype(col) THEN [i \in 1..Len(col) |-> convert_numeric_col(col[i])]
    ELSE [i \in 1..Len(col) |-> as_float(col[i])]

\* sales.load_data on the column
sales_load_column(col) == optimize_dtype(sales_converted(col))

\* lines 197-199 of sales.load_data: for a float column without NaN,
\* df[col].astype('int64') is evaluated, which raises IntCastingNaNError when
\* the column holds an infinity; load_data has no try
sales_load_raises(col) ==
    /\ \A i \in 1..Len(col) : sales_converted(col)[i] # NULL
    /\ \E i \in 1..Len(col) : ~is_finite(sales_converted(col)[i])

\* .fillna(0), on a finite cell
fillna0(cell) == IF cell = NULL THEN 0 ELSE cell[1]

\* .astype(int): truncation toward zero
astype_int(t) == IF t >= 0 THEN (t \div 10) * 10 ELSE -(((-t) \div 10) * 10)

\* bc_products.load_data on one cell of a numeric column (lines 48-62)
bc_convert_cell(cell) == astype_int(fillna0(to_numeric(strip_commas(astype_str(cell)))))

bc_load_column(col) == [i \in 1..Len(col) |-> bc_convert_cell(col[i])]

\* line 62 of bc_products.load_data: astype(int) raises IntCastingNaNError on
\* an infinity, which fillna(0) leaves in the column; the except of line 83
\* reports the error and returns an empty table
bc_load_raises(col) ==
    \E i \in 1..Len(col) : ~is_finite(to_numeric(strip_commas(astype_str(col[i]))))

Sentinel == <<"*", "*", "*", ".", "*", "*">>

\* re.search('\\*\\*\\*\\.\\*\\*', text): the escaped pattern is the literal text
has_sentinel(chars) ==
    \E o \in 0..(Len(chars) - Len(Sentinel)) :
        SubSeq(chars, o + 1, o + Len(Sentinel)) = Sentinel

\* Series.replace(pattern, np.nan, regex=True): the replacement is no string,
\* so a cell in which the pattern is found is replaced as a whole
replace_sentinel(chars) == IF has_sentinel(chars) THEN NULL ELSE <<chars>>

\* the margin conversion followed by the fillna(0) of the numeric columns
bc_margin_cell_filled(cell) ==
    LET r == replace_sentinel(astype_str(cell))
    IN  <<fillna0(IF r = NULL THEN NULL ELSE to_numeric(r[1]))>>

\* bc_products.load_data on one cell of the 毛利率 column (lines 65-68): NaN is
\* left as it is
bc_margin_cell(cell) ==
    LET r == replace_sentinel(astype_str(cell))
    IN  IF r = NULL THEN NULL ELSE to_numeric(r[1])

bc_margin_column(col) == [i \in 1..Len(col) |-> bc_margin_cell(col[i])]

LoadedColumns == {"sales", "bc_qty", "bc_margin"}

InitLoad ==
    /\ done = {}
    /\ IdleFill /\ IdleAgg /\ IdleJoin /\ IdleDates /\ IdlePeriods /\ IdlePool /\ IdleCache /\ IdleLabel /\ IdleUnsold /\ IdleLatest /\ IdleCompare /\ IdleRefresh /\ IdleUpload
    /\ raw_col \in SeqsUpTo(RawCells, MaxCells)
    /\ sales_col = <<>>
    /\ bc_qty = <<>>
    /\ bc_margin = <<>>
    /\ load_error = {}
    /\ again = [c \in LoadedColumns |-> <<>>]

\* sales.load_data, lines 40-58 and 173-218, on the 數量 column
SalesLoadData ==
    /\ "sales_load" \notin done
    /\ done' = done \cup {"sales_load"}
    /\ IF sales_load_raises(raw_col)
       THEN load_error' = load_error \cup {"sales"} /\ UNCHANGED sales_col
       ELSE sales_col' = sales_load_column(raw_col) /\ UNCHANGED load_error
    /\ UNCHANGED <<raw_col, bc_qty, bc_margin, again, fillVars, aggVars, joinVars, dateVars, periodVars, poolVars, cacheVars, labelVars, unsoldVars, latestVars, compareVars, refreshVars, uploadVars>>

\* bc_products.load_data, lines 46-68, on the column as 數量 and as 毛利率
BcLoadData ==
    /\ "bc_load" \notin done
    /\ done' = done \cup {"bc_load"}
    /\ IF bc_load_raises(raw_col)
       THEN /\ load_error' = load_error \cup {"bc"}
            /\ bc_qty' = <<>>
            /\ bc_margin' = <<>>
       ELSE /\ bc_qty' = bc_load_column(raw_col)
            /\ bc_margin' = bc_margin_column(raw_col)
            /\ UNCHANGED load_error
    /\ UNCHANGED <<raw_col, sales_col, again, fillVars, aggVars, joinVars, dateVars, periodVars, poolVars, cacheVars, labelVars, unsoldVars, latestVars, compareVars, refreshVars, uploadVars>>

\* the cell of a column with an integer dtype
IntCell(n) == [k |-> "int", v |-> <<n>>]

\* a loaded cell of a float column, as a cell of the table
float_cell(c) == IF c = NULL THEN Missing ELSE [k |-> "num", v |-> c]

\* the 數量 column of the table sales.load_data returned: lines 197-211 made
\* it an integer column when it has no NaN and only whole numbers, otherwise
\* it is a float column
sales_table_column(col) ==
    IF \A i \in 1..Len(col) : col[i] # NULL /\ is_finite(col[i]) /\ col[i][1] % 10 = 0
    THEN [i \in 1..Len(col) |-> IntCell(col[i][1])]
    ELSE [i \in 1..Len(col) |-> float_cell(col[i])]

\* the 數量 column of the table bc_products.load_data returned: astype(int)
\* made it an integer column
bc_table_qty(col) == [i \in 1..Len(col) |-> IntCell(col[i])]

\* its 毛利率 column: a float column
bc_table_margin(col) == [i \in 1..Len(col) |-> float_cell(col[i])]

\* lines 40-58 and 173-218 of sales.load_data applied to the table it returned
SalesNormalizeAgain ==
    /\ "sales_load" \in done /\ "sales" \notin load_error
    /\ "sales_again" \notin done
    /\ done' = done \cup {"sales_again"}
    /\ again' = [again EXCEPT !["sales"] = sales_load_column(sales_table_column(sales_col))]
    /\ UNCHANGED <<raw_col, sales_col, bc_qty, bc_margin, load_error, fillVars, aggVars, joinVars, dateVars, periodVars, poolVars, cacheVars, labelVars, unsoldVars, latestVars, compareVars, refreshVars, uploadVars>>

\* lines 46-68 of bc_products.load_data applied to the table it returned
BcNormalizeAgain ==
    /\ "bc_load" \in done /\ "bc" \notin load_error
    /\ "bc_again" \notin done
    /\ done' = done \cup {"bc_again"}
    /\ again' = [again EXCEPT !["bc_qty"] = bc_load_column(bc_table_qty(bc_qty)),
                              !["bc_margin"] = bc_margin_column(bc_table_margin(bc_margin))]
    /\ UNCHANGED <<raw_col, sales_col, bc_qty, bc_margin, load_error, fillVars, aggVars, joinVars, dateVars, periodVars, poolVars, cacheVars, labelVars, unsoldVars, latestVars, compareVars, refreshVars, uploadVars>>

NextLoad == SalesLoadData \/ BcLoadData \/ SalesNormalizeAgain \/ BcNormalizeAgain

SpecLoad == InitLoad /\ [][NextLoad]_vars

\* what each raw cell of the model means as a number, in tenths (<<>>: the
\* cell holds no number)
Meaning(cell) ==
    IF cell = Txt(<<"1", ",", "0", "0", "0">>) THEN <<10000>>
    ELSE IF cell = Txt(<<"-", "5">>) THEN <<-50>>
    ELSE IF cell = Txt(<<"2", ".", "5">>) THEN <<25>>
    ELSE IF cell.k = "num" THEN cell.v
    ELSE NULL

IsWhole(t) == t % 10 = 0

\* C9: after sales.load_data every cell of a designated numeric column that
\* cannot be parsed as a number holds 0 and never NaN.
C9_UnparseableIsZero ==
    "sales_load" \in done =>
        \A i \in 1..Len(sales_col) :
            /\ sales_col[i] # NULL
            /\ Meaning(raw_col[i]) = NULL => sales_col[i] = <<0>>

\* C10 as stated: after bc_products.load_data every on-hand quantity is an
\* integer >= 0.
C10_QuantityNonNegative ==
    "bc_load" \in done =>
        \A i \in 1..Len(bc_qty) : IsWhole(bc_qty[i]) /\ bc_qty[i] >= 0

\* C10 amended: every on-hand quantity is an integer: the number the cell
\* holds once the separators are removed, truncated toward zero, and 0 for an
\* unparseable or missing cell; it is >= 0 unless the cell holds a negative
\* number, which is kept.
C10_QuantityCleaned ==
    "bc_load" \in done =>
        \A i \in 1..Len(bc_qty) :
            LET m == Meaning(raw_col[i])
            IN  /\ IsWhole(bc_qty[i])
                /\ m = NULL => bc_qty[i] = 0
                /\ (m # NULL /\ m[1] >= 0) =>
                     (bc_qty[i] >= 0 /\ bc_qty[i] <= m[1] /\ m[1] - bc_qty[i] < 10)
                /\ (m # NULL /\ m[1] < 0) =>
                     (bc_qty[i] <= 0 /\ bc_qty[i] >= m[1] /\ bc_qty[i] - m[1] < 10)

\* C10 witness: a comma-formatted cell was read as 1000 and an unparseable
\* or missing cell as 0.
C10_Witness ==
    /\ "bc_load" \in done
    /\ \E i \in 1..Len(bc_qty) :
        /\ raw_col[i] = Txt(<<"1", ",", "0", "0", "0">>)
        /\ bc_qty[i] = 10000
    /\ \E i \in 1..Len(bc_qty) :
        /\ raw_col[i] \in {Txt(<<"a", "b", "c">>), Missing}
        /\ bc_qty[i] = 0

\* what a 毛利率 cell means as a number: the separators are not removed from
\* this column, so a text with a comma is no number here
MarginMeaning(cell) ==
    IF cell = Txt(<<"1", ",", "0", "0", "0">>) THEN NULL ELSE Meaning(cell)

\* C11: after bc_products.load_data a 毛利率 cell holding "***.**" or another
\* unparseable text (or nothing) is missing, never 0, and every numeric cell,
\* 0 included, holds its number.
C11_MarginSentinelIsMissing ==
    "bc_load" \in done =>
        \A i \in 1..Len(bc_margin) :
            bc_margin[i] = MarginMeaning(raw_col[i])

\* C11 witness: the sentinel was read as missing and a zero margin as 0.
C11_Witness ==
    /\ "bc_load" \in done
    /\ \E i \in 1..Len(bc_margin) : raw_col[i] = Txt(Sentinel) /\ bc_margin[i] = NULL
    /\ \E i \in 1..Len(bc_margin) : raw_col[i] = Num(0) /\ bc_margin[i] = <<0>>

(***************************************************************************)
(* Multi-period mode: the selected period files are loaded, tagged with    *)
(* their period label and concatenated (sales.run_sales_analysis,          *)
(* integrated_module.run_integrated_analysis), and the product aggregate   *)
(* gets a quantity and a subtotal column per period.  A loaded table is    *)
(* [dtype, rows], dtype being the dtype of its 產品代號 column: pd.read_excel*)
(* reads a column of numbers as int64, of numbers and empty cells as       *)
(* float64 and a column with a text cell as object.  name stands for the   *)
(* two columns aggregated with 'first' (產品名稱, 單位).                    *)
(***************************************************************************)
MaxFileRows == 2

\* selected_periods, in the order of selection
Periods == <<"P1", "P2">>

FileCodes == {I12, SA1, NULL}
FileRows == [product_code : FileCodes, name : {"n1", "n2"}, qty : {<<1>>, <<2>>},
             subtotal : {<<3>>}]
PeriodFilters == {<<>>, <<"1">>}

\* the dtype pd.read_excel gives the 產品代號 column of a file
code_dtype(rows) ==
    IF \A i \in 1..Len(rows) : rows[i].product_code # NULL /\ rows[i].product_code[1] = "int"
    THEN "int64"
    ELSE IF \A i \in 1..Len(rows) :
                rows[i].product_code = NULL \/ rows[i].product_code[1] = "int"
    THEN "float64"
    ELSE "object"

\* A number of a float64 column is a float (12.0), of an int64 or object
\* column an int (12).  The two are equal as keys (12 == 12.0), so the code
\* stays the same and the row records which of the two it holds.
cast_rows(rows, dtype) ==
    [i \in 1..Len(rows) |->
        [product_code |-> rows[i].product_code, name |-> rows[i].name,
         qty |-> rows[i].qty, subtotal |-> rows[i].subtotal,
         month_info |-> rows[i].month_info,
         float_key |-> rows[i].float_key \/ dtype = "float64"]]

\* pd.read_excel: the rows as read, no label yet
read_rows(rows) ==
    [i \in 1..Len(rows) |->
        [product_code |-> rows[i].product_code, name |-> rows[i].name,
         qty |-> rows[i].qty, subtotal |-> rows[i].subtotal,
         month_info |-> "", float_key |-> FALSE]]

\* sales.load_data on a period file: 產品代號 is left as pd.read_excel read it
load_period_file(rows) ==
    [dtype |-> code_dtype(rows), rows |-> cast_rows(read_rows(rows), code_dtype(rows))]

\* df_result['month_info'] = month_info / period_df['_period'] = period
tag_period(df, label) ==
    [dtype |-> df.dtype,
     rows |-> [i \in 1..Len(df.rows) |-> [df.rows[i] EXCEPT !.month_info = label]]]

\* the common dtype of pd.concat
concat_dtype(d1, d2) ==
    IF d1 = d2 THEN d1
    ELSE IF {d1, d2} = {"int64", "float64"} THEN "float64"
    ELSE "object"

\* pd.concat(dfs, ignore_index=True) of the two tables
pd_concat(frames) ==
    LET d == concat_dtype(frames[1].dtype, frames[2].dtype)
    IN  [dtype |-> d, rows |-> cast_rows(frames[1].rows, d) \o cast_rows(frames[2].rows, d)]

\* the first row of a group
first_row(df, code) ==
    df[CHOOSE i \in 1..Len(df) :
           /\ df[i].product_code = code
           /\ \A j \in 1..(i - 1) : df[j].product_code # code]

\* 'first' of the name column for one key
agg_name_first(df, code) == first_row(df, code).name

\* what the key column of a groupby holds for one key: the key of the
\* group's first row, a text, an int or a float
key_kind(df, code) ==
    IF code[1] = "str" THEN "str"
    ELSE IF first_row(df, code).float_key THEN "float"
    ELSE "int"

\* groupby(['產品代號'], as_index=False).agg(agg_dict) with the 'first' column
groupby_agg_named(df) ==
    LET keys == groupby_keys(df)
    IN  [k \in 1..Len(keys) |->
            [product_code |-> keys[k],
             kind |-> key_kind(df, keys[k]),
             name |-> agg_name_first(df, keys[k]),
             qty |-> agg_sum(df, "qty", keys[k]),
             subtotal |-> agg_sum(df, "subtotal", keys[k])]]

\* Series.unique(): the labels in the order of their first row
RECURSIVE unique_labels(_)
unique_labels(df) ==
    IF df = <<>> THEN <<>>
    ELSE LET rest == unique_labels(SubSeq(df, 1, Len(df) - 1))
             m == df[Len(df)].month_info
         IN  IF \E k \in 1..Len(rest) : rest[k] = m THEN rest ELSE Append(rest, m)

\* one period's pair of columns for one aggregate row: the sums of the
\* period's group with that key, and after fillna(0) 0 when there is none
period_columns(label, period_rows, key) ==
    IF \E k \in 1..Len(groupby_keys(period_rows)) : groupby_keys(period_rows)[k] = key
    THEN <<label, agg_sum(period_rows, "qty", key), agg_sum(period_rows, "subtotal", key)>>
    ELSE <<label, 0, 0>>

with_overall_columns(summary) ==
    [k \in 1..Len(summary) |->
        [product_code |-> summary[k].product_code,
         kind |-> summary[k].kind,
         name |-> summary[k].name,
         qty |-> summary[k].qty,
         subtotal |-> summary[k].subtotal,
         unit_price_qty |-> derived_unit_price(summary[k]),
         per |-> <<>>]]

\* sales.get_product_summary in multi-period mode (lines 893-1014), given the
\* rows the dashboard filtered.  Any exception inside it is caught and an
\* empty table is returned.
get_product_summary_multi(df, pat) ==
    IF pat # <<>> /\ df.dtype # "object" THEN <<>>
    ELSE LET df_work == IF pat # <<>> THEN filter_rows(df.rows, pat) ELSE df.rows
             overall ==
                 with_overall_columns(sort_by_subtotal_desc(groupby_agg_named(df_work)))
             months == unique_labels(df_work)
         IN  [k \in 1..Len(overall) |->
                [overall[k] EXCEPT !.per =
                    [m \in 1..Len(months) |->
                        period_columns(
                            months[m],
                            SelectSeq(df_work, LAMBDA r : r.month_info = months[m]),
                            overall[k].product_code)]]]

\* the dashboard's own filter (sales.py line 884) followed by the call
sales_period_summary(df, pat) ==
    get_product_summary_multi(
        [dtype |-> df.dtype,
         rows |-> IF pat # <<>> THEN filter_rows(df.rows, pat) ELSE df.rows],
        pat)

\* lib.infer_dtype of a join key column, given the kinds of its keys
infer_dtype(dtype, kinds) ==
    IF dtype = "int64" THEN "integer"
    ELSE IF dtype = "float64" THEN "floating"
    ELSE IF kinds = <<>> THEN "empty"
    ELSE IF \A k \in 1..Len(kinds) : kinds[k] = "str" THEN "string"
    ELSE IF \A k \in 1..Len(kinds) : kinds[k] = "int" THEN "integer"
    ELSE IF \A k \in 1..Len(kinds) : kinds[k] = "float" THEN "floating"
    ELSE IF \E k \in 1..Len(kinds) : kinds[k] = "int" THEN "mixed-integer"
    ELSE "mixed"

\* pd.merge refuses (ValueError) to join an object key column that looks like
\* text with a numeric one
merge_keys_ok(ldtype, lkeys, rdtype, rkeys) ==
    LET il == infer_dtype(ldtype, lkeys)
        ir == infer_dtype(rdtype, rkeys)
        bool_types == {"integer", "mixed-integer", "boolean", "empty"}
        string_types == {"string", "unicode", "mixed", "bytes", "empty"}
    IN  \/ (lkeys = <<>>) # (rkeys = <<>>)
        \/ ldtype = rdtype
        \/ ldtype # "object" /\ rdtype # "object"
        \/ il \in bool_types /\ ir \in bool_types
        \/ ~ \/ il \in string_types /\ ir \notin string_types
             \/ ir \in string_types /\ il \notin string_types

\* the per-period loop of integrated_module.display_integrated_dashboard
\* (lines 449-511) for the periods k..: a merge that raises is caught, a
\* warning is shown and the period's columns are not added
RECURSIVE integrated_period_columns(_, _, _, _, _)
integrated_period_columns(k, monthly, pat, ldtype, overall) ==
    IF k > Len(monthly) THEN [r \in 1..Len(overall) |-> <<>>]
    ELSE LET period_products ==
                 IF pat # <<>> THEN filter_rows(monthly[k].rows, pat) ELSE monthly[k].rows
             rest == integrated_period_columns(k + 1, monthly, pat, ldtype, overall)
             lkeys == [r \in 1..Len(overall) |-> overall[r].kind]
             rkeys == [r \in 1..Len(groupby_keys(period_products)) |->
                          key_kind(period_products, groupby_keys(period_products)[r])]
         IN  IF merge_keys_ok(ldtype, lkeys, monthly[k].dtype, rkeys)
             THEN [r \in 1..Len(overall) |->
                     <<period_columns(Periods[k], period_products, overall[r].product_code)>>
                         \o rest[r]]
             ELSE rest

\* the aggregation of integrated_module.display_integrated_dashboard (lines
\* 399-511), given the filtered rows of the combined table
integrated_period_summary(df, monthly, pat) ==
    LET overall == with_overall_columns(sort_by_subtotal_desc(groupby_agg_named(df.rows)))
        cols == integrated_period_columns(1, monthly, pat, df.dtype, overall)
    IN  [r \in 1..Len(overall) |-> [overall[r] EXCEPT !.per = cols[r]]]

PeriodFiles == (SeqsUpTo(FileRows, MaxFileRows) \ {<<>>})

InitPeriods ==
    /\ done = {}
    /\ IdleFill /\ IdleJoin /\ IdleDates /\ IdleLoad /\ IdlePool /\ IdleCache /\ IdleLabel /\ IdleUnsold /\ IdleLatest /\ IdleCompare /\ IdleRefresh /\ IdleUpload
    /\ view \in {"sales", "integrated"}
    /\ items = <<>>
    /\ code_column = TRUE
    /\ product_filter \in PeriodFilters
    /\ product_summary = <<>>
    /\ outcome = "ok"
    /\ period_files \in [1..Len(Periods) -> PeriodFiles]
    /\ dfs = <<>>
    /\ combined = <<>>

\* the tables of the period files in the order given, each with its label
tagged_in_order(files, order) ==
    [k \in 1..Len(order) |-> tag_period(load_period_file(files[order[k]]), Periods[order[k]])]

\* sales.run_sales_analysis, lines 460-494: the loads run in a thread pool and
\* dfs collects the tables in the order as_completed yields them
SalesLoadPeriods ==
    /\ view = "sales"
    /\ "load_periods" \notin done
    /\ done' = done \cup {"load_periods"}
    /\ \E order \in Permutations(1..Len(Periods)) :
        /\ dfs' = tagged_in_order(period_files, order)
        /\ combined' = pd_concat(dfs')
    /\ UNCHANGED <<period_files, aggVars, fillVars, joinVars, dateVars, loadVars, poolVars, cacheVars, labelVars, unsoldVars, latestVars, compareVars, refreshVars, uploadVars>>

\* integrated_module.run_integrated_analysis, lines 172-201: the files are
\* loaded one after the other in the order of selection
IntegratedLoadPeriods ==
    /\ view = "integrated"
    /\ "load_periods" \notin done
    /\ done' = done \cup {"load_periods"}
    /\ dfs' = tagged_in_order(period_files, [k \in 1..Len(Periods) |-> k])
    /\ combined' = pd_concat(dfs')
    /\ UNCHANGED <<period_files, aggVars, fillVars, joinVars, dateVars, loadVars, poolVars, cacheVars, labelVars, unsoldVars, latestVars, compareVars, refreshVars, uploadVars>>

\* sales.display_sales_dashboard in multi-period mode: the .str filter of line
\* 848 is outside any try
SalesPeriodSummary ==
    /\ view = "sales"
    /\ "load_periods" \in done
    /\ "summary" \notin done
    /\ done' = done \cup {"summary"}
    /\ IF product_filter # <<>> /\ combined.dtype # "object"
       THEN outcome' = "raised" /\ UNCHANGED product_summary
       ELSE /\ outcome' = "ok"
            /\ product_summary' = sales_period_summary(combined, product_filter)
    /\ UNCHANGED <<view, items, code_column, product_filter, periodVars>>
    /\ UNCHANGED <<fillVars, joinVars, dateVars, loadVars, poolVars, cacheVars, labelVars, unsoldVars, latestVars, compareVars, refreshVars, uploadVars>>

\* integrated_module.display_integrated_dashboard: the .str filters of lines
\* 372, 401 and 470 are outside any try
IntegratedPeriodSummary ==
    /\ view = "integrated"
    /\ "load_periods" \in done
    /\ "summary" \notin done
    /\ done' = done \cup {"summary"}
    /\ IF /\ product_filter # <<>>
          /\ \/ combined.dtype # "object"
             \/ \E k \in 1..Len(dfs) : dfs[k].dtype # "object"
       THEN outcome' = "raised" /\ UNCHANGED product_summary
       ELSE /\ outcome' = "ok"
            /\ product_summary' =
                 integrated_period_summary(
                     [dtype |-> combined.dtype,
                      rows |-> IF product_filter # <<>>
                               THEN filter_rows(combined.rows, product_filter)
                               ELSE combined.rows],
                     dfs, product_filter)
    /\ UNCHANGED <<view, items, code_column, product_filter, periodVars>>
    /\ UNCHANGED <<fillVars, joinVars, dateVars, loadVars, poolVars, cacheVars, labelVars, unsoldVars, latestVars, compareVars, refreshVars, uploadVars>>

NextPeriods ==
    \/ SalesLoadPeriods
    \/ IntegratedLoadPeriods
    \/ SalesPeriodSummary
    \/ IntegratedPeriodSummary

SpecPeriods == InitPeriods /\ [][NextPeriods]_vars

\* the line items of the combined table the filter lets through
FilteredItems ==
    IF product_filter # <<>> THEN filter_rows(combined.rows, product_filter) ELSE combined.rows

\* C12: for every product of the overall aggregate and every period label of
\* its line items the result has exactly one row for the product, whose
\* columns of that period hold the sums over the product's line items in the
\* period (0 when it has none).
C12_PeriodColumns ==
    ("summary" \in done /\ "load_periods" \in done /\ outcome = "ok") =>
        \A i \in 1..Len(FilteredItems) :
            FilteredItems[i].product_code # NULL =>
                LET p == FilteredItems[i].product_code
                    hits == {k \in 1..Len(product_summary) :
                                 product_summary[k].product_code = p}
                IN  /\ Cardinality(hits) = 1
                    /\ \A k \in hits : \A j \in 1..Len(FilteredItems) :
                        LET l == FilteredItems[j].month_info
                            mine == {n \in 1..Len(FilteredItems) :
                                         /\ FilteredItems[n].product_code = p
                                         /\ FilteredItems[n].month_info = l}
                            cs == {c \in 1..Len(product_summary[k].per) :
                                       product_summary[k].per[c][1] = l}
                        IN  /\ Cardinality(cs) = 1
                            /\ \A c \in cs :
                                /\ product_summary[k].per[c][2] = SumCells(FilteredItems, "qty", mine)
                                /\ product_summary[k].per[c][3] = SumCells(FilteredItems, "subtotal", mine)

\* the aggregate of the sales dashboard had the loads completed in the order
\* of submission
InOrderSummary ==
    sales_period_summary(
        pd_concat(tagged_in_order(period_files, [k \in 1..Len(Periods) |-> k])),
        product_filter)

\* the rows of the combined table that carry the label of file f, as they
\* were in the file
RowsLabelled(f) ==
    LET rs == SelectSeq(combined.rows, LAMBDA r : r.month_info = Periods[f])
    IN  [i \in 1..Len(rs) |->
            [product_code |-> rs[i].product_code, name |-> rs[i].name,
             qty |-> rs[i].qty, subtotal |-> rs[i].subtotal]]

\* two aggregate tables hold the same rows with the same columns, whatever
\* the order of the per-period columns
SameAggregate(a, b) ==
    /\ Len(a) = Len(b)
    /\ \A k \in 1..Len(a) :
        /\ a[k].product_code = b[k].product_code
        /\ a[k].name = b[k].name
        /\ a[k].qty = b[k].qty
        /\ a[k].subtotal = b[k].subtotal
        /\ a[k].unit_price_qty = b[k].unit_price_qty
        /\ {a[k].per[c] : c \in 1..Len(a[k].per)} = {b[k].per[c] : c \in 1..Len(b[k].per)}

\* C14: whatever the order in which the parallel loads complete, every row
\* of the combined table carries the label of its file and the product
\* aggregate, first-observed columns and per-period columns included, is the
\* one of the submission order.
C14_OrderIndependent ==
    (view = "sales" /\ "summary" \in done /\ "load_periods" \in done /\ outcome = "ok") =>
        /\ \A f \in 1..Len(Periods) : RowsLabelled(f) = period_files[f]
        /\ SameAggregate(product_summary, InOrderSummary)

\* the sum of column c (2 the quantity, 3 the subtotal) over the per-period
\* columns of one aggregate row
RECURSIVE SumPer(_, _)
SumPer(per, c) ==
    IF per = <<>> THEN 0
    ELSE per[Len(per)][c] + SumPer(SubSeq(per, 1, Len(per) - 1), c)

\* C29: in every row of the multi-period aggregate the per-period quantity
\* columns add up to the overall quantity and the per-period subtotal
\* columns add up to the overall subtotal.
C29_PeriodsSumToTotal ==
    ("summary" \in done /\ "load_periods" \in done /\ outcome = "ok") =>
        \A k \in 1..Len(product_summary) :
            /\ SumPer(product_summary[k].per, 2) = product_summary[k].qty
            /\ SumPer(product_summary[k].per, 3) = product_summary[k].subtotal

(***************************************************************************)
(* The multi-file loaders: the thread pool of sales.run_sales_analysis,    *)
(* the thread pool of the unsold-products filter of bc_products, and the   *)
(* sequential loop of integrated_module.run_integrated_analysis.  A file   *)
(* is known by its position in the selection; selected[f] tells whether    *)
(* pd.read_excel can read it.  status[f] is the state of its load:         *)
(* "queued", "running", "finished" (a result is ready), "failed" (the      *)
(* future holds an exception), "collected".  merged[f] counts how often    *)
(* the rows of file f were added to the combined result.                   *)
(***************************************************************************)
MaxFiles == 5

SalesMaxWorkers == 8
BcMaxWorkers == 4

Min(a, b) == IF a <= b THEN a ELSE b

Files == 1..Len(selected)

Running == {f \in Files : status[f] = "running"}

\* the pool without its cap
max_workers_uncapped(v, n) == n

\* ThreadPoolExecutor(max_workers=min(8, total_files)) and
\* ThreadPoolExecutor(max_workers=min(4, len(selected_files)))
max_workers(v, n) == Min(IF v = "sales" THEN SalesMaxWorkers ELSE BcMaxWorkers, n)

\* the load of one file in a worker: sales.load_data lets the exception of
\* pd.read_excel pass and the future fails; process_single_file of
\* bc_products catches it and returns an empty set
load_result(v, readable) ==
    IF readable \/ v = "bc" THEN "finished" ELSE "failed"

InitPool ==
    /\ done = {}
    /\ IdleFill /\ IdleAgg /\ IdleJoin /\ IdleDates /\ IdleLoad /\ IdlePeriods /\ IdleCache /\ IdleLabel /\ IdleUnsold /\ IdleLatest /\ IdleCompare /\ IdleRefresh /\ IdleUpload
    /\ \E v \in {"sales", "bc", "integrated"}, n \in 1..MaxFiles :
        /\ pool_view = v
        /\ selected \in [1..n -> BOOLEAN]
        /\ status = [f \in 1..n |-> "queued"]
        /\ merged = [f \in 1..n |-> 0]
    /\ phase = "idle"

\* executor.submit for every selected file (sales.py line 464, bc_products.py
\* line 376); bc_products uses the pool for more than one file only
Submit ==
    /\ phase = "idle"
    /\ pool_view = "sales" \/ (pool_view = "bc" /\ Len(selected) > 1)
    /\ phase' = "pool"
    /\ UNCHANGED <<pool_view, selected, status, merged>>
    /\ UNCHANGED <<done, fillVars, aggVars, joinVars, dateVars, loadVars, periodVars, cacheVars, labelVars, unsoldVars, latestVars, compareVars, refreshVars, uploadVars>>

\* a worker thread takes the oldest queued work item; the pool starts no
\* more than max_workers threads
StartLoad(f) ==
    /\ phase \in {"pool", "raising"}
    /\ status[f] = "queued"
    /\ \A g \in 1..(f - 1) : status[g] # "queued"
    /\ Cardinality(Running) < max_workers(pool_view, Len(selected))
    /\ status' = [status EXCEPT ![f] = "running"]
    /\ UNCHANGED <<pool_view, selected, merged, phase>>
    /\ UNCHANGED <<done, fillVars, aggVars, joinVars, dateVars, loadVars, periodVars, cacheVars, labelVars, unsoldVars, latestVars, compareVars, refreshVars, uploadVars>>

\* the worker returns from load_data / process_single_file
FinishLoad(f) ==
    /\ phase \in {"pool", "raising"}
    /\ status[f] = "running"
    /\ status' = [status EXCEPT ![f] = load_result(pool_view, selected[f])]
    /\ UNCHANGED <<pool_view, selected, merged, phase>>
    /\ UNCHANGED <<done, fillVars, aggVars, joinVars, dateVars, loadVars, periodVars, cacheVars, labelVars, unsoldVars, latestVars, compareVars, refreshVars, uploadVars>>

\* one turn of the as_completed loop: future.result() returns the table,
\* which is added to the result, or raises the exception of the load, which
\* ends the loop
Collect(f) ==
    /\ phase = "pool"
    /\ status[f] \in {"finished", "failed"}
    /\ status' = [status EXCEPT ![f] = "collected"]
    /\ IF status[f] = "failed"
       THEN phase' = "raising" /\ UNCHANGED merged
       ELSE /\ phase' = phase
            /\ merged' = [merged EXCEPT ![f] = @ + (IF selected[f] THEN 1 ELSE 0)]
    /\ UNCHANGED <<pool_view, selected>>
    /\ UNCHANGED <<done, fillVars, aggVars, joinVars, dateVars, loadVars, periodVars, cacheVars, labelVars, unsoldVars, latestVars, compareVars, refreshVars, uploadVars>>

\* the end of the with block after the loop: every future was collected, and
\* pd.concat(dfs) / the filter on sold_product_codes follows
LeavePool ==
    /\ phase = "pool"
    /\ \A f \in Files : status[f] = "collected"
    /\ phase' = "done"
    /\ UNCHANGED <<pool_view, selected, status, merged>>
    /\ UNCHANGED <<done, fillVars, aggVars, joinVars, dateVars, loadVars, periodVars, cacheVars, labelVars, unsoldVars, latestVars, compareVars, refreshVars, uploadVars>>

\* the exception leaves the with block: shutdown(wait=True) lets the loads
\* that were submitted run to their end, then the exception reaches the
\* caller and nothing is concatenated
Propagate ==
    /\ phase = "raising"
    /\ \A f \in Files : status[f] \notin {"queued", "running"}
    /\ phase' = "aborted"
    /\ UNCHANGED <<pool_view, selected, status, merged>>
    /\ UNCHANGED <<done, fillVars, aggVars, joinVars, dateVars, loadVars, periodVars, cacheVars, labelVars, unsoldVars, latestVars, compareVars, refreshVars, uploadVars>>

\* bc_products, one selected file (lines 388-403): sales.load_data, and on an
\* exception pd.read_excel once more, outside any try
BcLoadSingle ==
    /\ phase = "idle"
    /\ pool_view = "bc"
    /\ Len(selected) = 1
    /\ IF selected[1]
       THEN /\ phase' = "done"
            /\ status' = [status EXCEPT ![1] = "collected"]
            /\ merged' = [merged EXCEPT ![1] = @ + 1]
       ELSE /\ phase' = "aborted"
            /\ status' = [status EXCEPT ![1] = "failed"]
            /\ UNCHANGED merged
    /\ UNCHANGED <<pool_view, selected>>
    /\ UNCHANGED <<done, fillVars, aggVars, joinVars, dateVars, loadVars, periodVars, cacheVars, labelVars, unsoldVars, latestVars, compareVars, refreshVars, uploadVars>>

\* one turn of the loop of integrated_module.run_integrated_analysis (lines
\* 175-191): sales.load_data in the caller's thread, outside any try
IntegratedLoadNext(f) ==
    /\ phase = "idle"
    /\ pool_view = "integrated"
    /\ status[f] = "queued"
    /\ \A g \in 1..(f - 1) : status[g] = "collected"
    /\ IF selected[f]
       THEN /\ status' = [status EXCEPT ![f] = "collected"]
            /\ merged' = [merged EXCEPT ![f] = @ + 1]
            /\ phase' = phase
       ELSE /\ status' = [status EXCEPT ![f] = "failed"]
            /\ phase' = "aborted"
            /\ UNCHANGED merged
    /\ UNCHANGED <<pool_view, selected>>
    /\ UNCHANGED <<done, fillVars, aggVars, joinVars, dateVars, loadVars, periodVars, cacheVars, labelVars, unsoldVars, latestVars, compareVars, refreshVars, uploadVars>>

\* sales_df = pd.concat(dfs, ignore_index=True) after the loop (line 198)
IntegratedConcat ==
    /\ phase = "idle"
    /\ pool_view = "integrated"
    /\ \A f \in Files : status[f] = "collected"
    /\ phase' = "done"
    /\ UNCHANGED <<pool_view, selected, status, merged>>
    /\ UNCHANGED <<done, fillVars, aggVars, joinVars, dateVars, loadVars, periodVars, cacheVars, labelVars, unsoldVars, latestVars, compareVars, refreshVars, uploadVars>>

NextPool ==
    \/ Submit
    \/ \E f \in Files : StartLoad(f)
    \/ \E f \in Files : FinishLoad(f)
    \/ \E f \in Files : Collect(f)
    \/ LeavePool
    \/ Propagate
    \/ BcLoadSingle
    \/ \E f \in Files : IntegratedLoadNext(f)
    \/ IntegratedConcat

SpecPool == InitPool /\ [][NextPool]_vars

\* C13: when a multi-file load has ended and the load of one file failed,
\* the loads of the other files have completed and their rows are in the
\* combined result.
C13_FailureIsolated ==
    (phase \in {"done", "aborted"} /\ Len(selected) > 1 /\ \E f \in Files : ~selected[f]) =>
        /\ phase = "done"
        /\ \A g \in Files : selected[g] => (status[g] = "collected" /\ merged[g] >= 1)

literal_contains(code, pat) ==
    /\ code # NULL
    /\ \E o \in 0..(Len(code[2]) - Len(pat)) :
           \A k \in 1..Len(pat) : lower(pat[k]) = lower(code[2][o + k])

LiteralMatches ==
    {i \in 1..Len(items) :
        product_filter = <<>> \/ literal_contains(items[i].product_code, product_filter)}

\* C16: the aggregate is computed from exactly the line items whose code
\* contains the filter as a literal substring, case-insensitively (all line
\* items when the filter is empty): a product has an aggregate row exactly
\* when one of these rows carries it, and the row holds their sums.
C16_LiteralSubstringFilter ==
    ("summary" \in done /\ outcome = "ok") =>
        \A p \in ItemCodes \ {NULL} :
            LET mine == {i \in LiteralMatches : items[i].product_code = p}
                hits == {k \in 1..Len(product_summary) : product_summary[k].product_code = p}
            IN  IF mine = {} THEN hits = {}
                ELSE /\ Cardinality(hits) = 1
                     /\ \A k \in hits :
                         /\ product_summary[k].subtotal = SumCells(items, "subtotal", mine)
                         /\ product_summary[k].qty = SumCells(items, "qty", mine)

\* C17: for a table without the 產品代號 column and any filter text, the
\* product-summary step of the sales dashboard and of the integrated module
\* does not raise and yields a table without rows.
C17_MissingColumnEmptyResult ==
    ("summary" \in done /\ ~code_column /\ view \in {"sales", "integrated"}) =>
        /\ outcome = "ok"
        /\ product_summary = <<>>

C18_LoadKeepsRows ==
    /\ "sales_load" \in done =>
        ("sales" \notin load_error /\ Len(sales_col) = Len(raw_col))
    /\ "bc_load" \in done =>
        ("bc" \notin load_error /\ Len(bc_qty) = Len(raw_col))

(***************************************************************************)
(* The st.cache_data memo caches.  Each decorated function has its own     *)
(* cache, kept by Streamlit in a cachetools.TTLCache(maxsize, ttl), where  *)
(* maxsize is max_entries, or infinite when the decorator gives none.  A   *)
(* cache is a sequence of entries [key, stored], the least recently used   *)
(* first; now is the time in seconds.  A run exercises one of the caches.  *)
(* Keys are numbered in the order of their first use.                      *)
(***************************************************************************)
MaxKeys == 11
MaxTicks == 2
MaxCalls == 12

SalesLoadTtl == 3600
SalesLoadMaxEntries == 10
BcLoadTtl == 60
MetricsTtl == 1800
SummaryTtl == 1800

CacheNames == {"sales.load_data", "bc_products.load_data", "aggregate_sales_metrics",
               "get_product_summary"}

\* the ttl= of the decorator
cache_ttl(c) ==
    IF c = "sales.load_data" THEN SalesLoadTtl
    ELSE IF c = "bc_products.load_data" THEN BcLoadTtl
    ELSE IF c = "aggregate_sales_metrics" THEN MetricsTtl
    ELSE SummaryTtl

\* the max_entries= of the decorator: only sales.load_data gives one
cache_max_entries(c) ==
    IF c = "sales.load_data" THEN <<SalesLoadMaxEntries>> ELSE NULL

\* TTLCache.expire: an entry is dropped once its age has reached the ttl
live_entries(c, entries, t) ==
    SelectSeq(entries, LAMBDA e : t - e.stored < cache_ttl(c))

in_cache(entries, k) == \E i \in 1..Len(entries) : entries[i].key = k

entry_of(entries, k) == entries[CHOOSE i \in 1..Len(entries) : entries[i].key = k]

\* a hit marks the entry as the most recently used one
touch(entries, k) ==
    Append(SelectSeq(entries, LAMBDA e : e.key # k), entry_of(entries, k))

\* a miss stores the computed value; a full cache first drops its least
\* recently used entry
store(c, entries, k, t) ==
    LET room == IF /\ cache_max_entries(c) # NULL
                   /\ Len(entries) >= cache_max_entries(c)[1]
                THEN Tail(entries) ELSE entries
    IN  Append(room, [key |-> k, stored |-> t])

InitCache ==
    /\ done = {}
    /\ IdleFill /\ IdleAgg /\ IdleJoin /\ IdleDates /\ IdleLoad /\ IdlePeriods /\ IdlePool /\ IdleLabel /\ IdleUnsold /\ IdleLatest /\ IdleCompare /\ IdleRefresh /\ IdleUpload
    /\ cache_name \in CacheNames
    /\ cache = <<>>
    /\ now = 0
    /\ returned = NULL
    /\ calls = 0

\* the keys a call is made with: the least recently used entry and the first
\* key that is not in the cache
Requested ==
    LET absent == {k \in 1..MaxKeys : ~in_cache(cache, k)}
    IN  (IF cache = <<>> THEN {} ELSE {cache[1].key})
            \cup (IF absent = {} THEN {}
                  ELSE {CHOOSE k \in absent : \A j \in absent : k <= j})

\* a call of the decorated function with the arguments of key k; returned is
\* the age of the value the caller gets
Lookup(k) ==
    /\ calls < MaxCalls
    /\ k \in Requested
    /\ LET live == live_entries(cache_name, cache, now)
       IN  IF in_cache(live, k)
           THEN /\ cache' = touch(live, k)
                /\ returned' = <<now - entry_of(live, k).stored>>
           ELSE /\ cache' = store(cache_name, live, k, now)
                /\ returned' = <<0>>
    /\ calls' = calls + 1
    /\ UNCHANGED <<cache_name, now>>
    /\ UNCHANGED <<done, fillVars, aggVars, joinVars, dateVars, loadVars, periodVars, poolVars, labelVars, unsoldVars, latestVars, compareVars, refreshVars, uploadVars>>

\* time passes, half a ttl at a time
Tick ==
    /\ now < MaxTicks * (cache_ttl(cache_name) \div 2)
    /\ now' = now + (cache_ttl(cache_name) \div 2)
    /\ UNCHANGED <<cache_name, cache, returned, calls>>
    /\ UNCHANGED <<done, fillVars, aggVars, joinVars, dateVars, loadVars, periodVars, poolVars, labelVars, unsoldVars, latestVars, compareVars, refreshVars, uploadVars>>

NextCache == (\E k \in 1..MaxKeys : Lookup(k)) \/ Tick

SpecCache == InitCache /\ [][NextCache]_vars

\* C19: every memo cache in use has a configured maximum number of entries
\* and never holds more, and a call never gets a value older than the ttl.
C19_CachesBounded ==
    /\ cache # <<>> =>
        /\ cache_max_entries(cache_name) # NULL
        /\ Len(cache) <= cache_max_entries(cache_name)[1]
    /\ returned # NULL => returned[1] < cache_ttl(cache_name)

(***************************************************************************)
(* Display labels derived from file names.  A file name is a sequence of   *)
(* characters: tokens joined by "_" and followed by ".xlsx".  The sales    *)
(* view labels a file with extract_date_from_filename; the inventory and   *)
(* the integrated view format the last token, or the file's modification   *)
(* time.  A label is its text and where the text came from.                *)
(***************************************************************************)
MaxTokens == 3

Ext == <<".", "x", "l", "s", "x">>
DateToken == <<"2", "0", "2", "5", "0", "1", "3", "1">>
YearToken == <<"2", "0", "2", "5">>
WordToken == <<"B", "C", "p", "r", "o", "d", "u", "c", "t", "s">>
NoteToken == <<"n", "e", "w">>
NameTokens == {DateToken, YearToken, WordToken, NoteToken}
DigitChars == <<"0", "1", "2", "3", "4", "5", "6", "7", "8", "9">>
ModTimes == {[year |-> 2025, month |-> 2, day |-> 3], [year |-> 2024, month |-> 12, day |-> 30]}
LabelViews == {"sales", "bc", "integrated"}

RECURSIVE join_tokens(_)
join_tokens(tokens) ==
    IF Len(tokens) = 1 THEN tokens[1]
    ELSE tokens[1] \o <<"_">> \o join_tokens(Tail(tokens))

FileNames ==
    {join_tokens(t) \o Ext : t \in UNION {[1..n -> NameTokens] : n \in 1..MaxTokens}}

\* str.split('_')
RECURSIVE split_underscore(_)
split_underscore(text) ==
    IF \A i \in 1..Len(text) : text[i] # "_" THEN <<text>>
    ELSE LET i == CHOOSE j \in 1..Len(text) :
                      text[j] = "_" /\ \A k \in 1..(j - 1) : text[k] # "_"
         IN  <<SubSeq(text, 1, i - 1)>> \o split_underscore(SubSeq(text, i + 1, Len(text)))

starts_with(text, prefix) ==
    Len(text) >= Len(prefix) /\ SubSeq(text, 1, Len(prefix)) = prefix

\* str.replace('.xlsx', '')
RECURSIVE remove_ext(_)
remove_ext(text) ==
    IF text = <<>> THEN <<>>
    ELSE IF starts_with(text, Ext) THEN remove_ext(SubSeq(text, Len(Ext) + 1, Len(text)))
    ELSE <<text[1]>> \o remove_ext(Tail(text))

\* the slice text[a:b] of Python, a and b counted from 0
slice(text, a, b) == SubSeq(text, a + 1, Min(b, Len(text)))

pad2(n) == <<DigitChars[(n \div 10) + 1], DigitChars[(n % 10) + 1]>>

\* file_mod_time.strftime("%Y/%m/%d")
strftime_ymd(t) ==
    pad2(t.year \div 100) \o pad2(t.year % 100) \o <<"/">> \o pad2(t.month)
        \o <<"/">> \o pad2(t.day)

\* sales.extract_date_from_filename
extract_date_from_filename(filename) ==
    LET parts == split_underscore(filename)
    IN  IF Len(parts) >= 3
        THEN [text |-> slice(parts[2], 0, 4) \o <<"-">> \o slice(parts[2], 4, 6),
              source |-> "name"]
        ELSE [text |-> filename, source |-> "name"]

\* the file date of the inventory and of the integrated view
file_date_formatted(selected_file, file_mod_time) ==
    LET parts == split_underscore(selected_file)
        file_date == remove_ext(parts[Len(parts)])
    IN  IF Len(file_date) >= 8
        THEN [text |-> slice(file_date, 0, 4) \o <<"/">> \o slice(file_date, 4, 6)
                            \o <<"/">> \o slice(file_date, 6, 8),
              source |-> "name"]
        ELSE [text |-> strftime_ymd(file_mod_time), source |-> "mtime"]

InitLabel ==
    /\ done = {}
    /\ IdleFill /\ IdleAgg /\ IdleJoin /\ IdleDates /\ IdleLoad /\ IdlePeriods /\ IdlePool
    /\ IdleCache /\ IdleUnsold /\ IdleLatest /\ IdleCompare /\ IdleRefresh /\ IdleUpload
    /\ file_name \in FileNames
    /\ mod_time \in ModTimes
    /\ file_labels = [v \in LabelViews |-> <<>>]

SalesFileLabel ==
    /\ "sales_label" \notin done
    /\ done' = done \cup {"sales_label"}
    /\ file_labels' = [file_labels EXCEPT !["sales"] = <<extract_date_from_filename(file_name)>>]
    /\ UNCHANGED <<file_name, mod_time>>
    /\ UNCHANGED <<fillVars, aggVars, joinVars, dateVars, loadVars, periodVars, poolVars, cacheVars, unsoldVars, latestVars, compareVars, refreshVars, uploadVars>>

BcFileLabel ==
    /\ "bc_label" \notin done
    /\ done' = done \cup {"bc_label"}
    /\ file_labels' = [file_labels EXCEPT !["bc"] = <<file_date_formatted(file_name, mod_time)>>]
    /\ UNCHANGED <<file_name, mod_time>>
    /\ UNCHANGED <<fillVars, aggVars, joinVars, dateVars, loadVars, periodVars, poolVars, cacheVars, unsoldVars, latestVars, compareVars, refreshVars, uploadVars>>

IntegratedFileLabel ==
    /\ "integrated_label" \notin done
    /\ done' = done \cup {"integrated_label"}
    /\ file_labels' = [file_labels EXCEPT
                          !["integrated"] = <<file_date_formatted(file_name, mod_time)>>]
    /\ UNCHANGED <<file_name, mod_time>>
    /\ UNCHANGED <<fillVars, aggVars, joinVars, dateVars, loadVars, periodVars, poolVars, cacheVars, unsoldVars, latestVars, compareVars, refreshVars, uploadVars>>

NextLabel == SalesFileLabel \/ BcFileLabel \/ IntegratedFileLabel

SpecLabel == InitLabel /\ [][NextLabel]_vars

is_date(token) ==
    Len(token) = 8 /\ \A i \in 1..8 : \E d \in 1..10 : token[i] = DigitChars[d]

\* the naming convention of the view
follows_convention(v, filename) ==
    LET parts == split_underscore(filename)
    IN  IF v = "sales" THEN Len(parts) >= 2 /\ is_date(remove_ext(parts[2]))
        ELSE is_date(remove_ext(parts[Len(parts)]))

\* C20: for a file name that does not follow the view's naming convention the
\* label derivation yields a label without raising, and the label is the
\* file's last-modified time.
C20_LabelFallsBackToModTime ==
    \A v \in LabelViews :
        (file_labels[v] # <<>> /\ ~follows_convention(v, file_name)) =>
            /\ file_labels[v][1].source = "mtime"
            /\ v # "sales" => file_labels[v][1].text = strftime_ymd(mod_time)

(***************************************************************************)
(* The "in stock but unsold" filter of bc_products (lines 326-410).  The   *)
(* inventory table is bc_df.  A selected sales file is [readable, column,  *)
(* codes]: whether it can be read, whether it has the 產品代號 column, and  *)
(* the non-null product codes of that column.                              *)
(***************************************************************************)
MaxSold == 2

SoldCodeSets == SUBSET {S12, I12, SA1}

SoldFiles ==
    {[readable |-> TRUE, column |-> TRUE, codes |-> c] : c \in SoldCodeSets}
        \cup {[readable |-> TRUE, column |-> FALSE, codes |-> {}],
              [readable |-> FALSE, column |-> FALSE, codes |-> {}]}

\* process_single_file: the codes of the file, and the empty set for a file
\* that cannot be read or has no 產品代號 column
process_single_file(file) ==
    IF file.readable /\ file.column THEN file.codes ELSE {}

\* df[(df['數量'] > 0) & (~df['產品代號'].isin(sold_product_codes))]: isin
\* compares the cells as they are, a number never equals a text
filter_unsold(inv, sold) ==
    SelectSeq(inv, LAMBDA r : r.qty > 0 /\ r.product_code \notin sold)

InitUnsold ==
    /\ done = {}
    /\ IdleFill /\ IdleAgg /\ IdleDates /\ IdleLoad /\ IdlePeriods /\ IdlePool
    /\ IdleCache /\ IdleLabel /\ IdleLatest /\ IdleCompare /\ IdleRefresh /\ IdleUpload
    /\ bc_df \in SeqsUpTo(InvRows, MaxInv)
    /\ joined = <<>>
    /\ sold_files \in (SeqsUpTo(SoldFiles, MaxSold) \ {<<>>})
    /\ sold_product_codes = {}
    /\ pending = {}
    /\ unsold_rows = <<>>
    /\ unsold_outcome = "none"

\* the else branch of line 387: one selected file is loaded directly; nothing
\* catches a file that cannot be read, and a file without the 產品代號 column
\* makes the function return the unfiltered table
UnsoldSingleFile ==
    /\ "unsold" \notin done
    /\ Len(sold_files) = 1
    /\ done' = done \cup {"unsold"}
    /\ IF ~sold_files[1].readable
       THEN /\ unsold_outcome' = "raised"
            /\ UNCHANGED <<sold_product_codes, unsold_rows>>
       ELSE IF ~sold_files[1].column
       THEN /\ unsold_outcome' = "unfiltered"
            /\ unsold_rows' = bc_df
            /\ UNCHANGED sold_product_codes
       ELSE /\ sold_product_codes' = sold_files[1].codes
            /\ unsold_rows' = filter_unsold(bc_df, sold_product_codes')
            /\ unsold_outcome' = "filtered"
    /\ UNCHANGED <<sold_files, pending>>
    /\ UNCHANGED <<fillVars, aggVars, joinVars, dateVars, loadVars, periodVars, poolVars, cacheVars, labelVars, latestVars, compareVars, refreshVars, uploadVars>>

\* line 374: every selected file is submitted to the pool
UnsoldSubmit ==
    /\ "unsold_submit" \notin done
    /\ Len(sold_files) > 1
    /\ done' = done \cup {"unsold_submit"}
    /\ pending' = 1..Len(sold_files)
    /\ UNCHANGED <<sold_files, sold_product_codes, unsold_rows, unsold_outcome>>
    /\ UNCHANGED <<fillVars, aggVars, joinVars, dateVars, loadVars, periodVars, poolVars, cacheVars, labelVars, latestVars, compareVars, refreshVars, uploadVars>>

\* one pass of the as_completed loop: the file whose load completed next
UnsoldCollect(f) ==
    /\ f \in pending
    /\ pending' = pending \ {f}
    /\ sold_product_codes' = sold_product_codes \cup process_single_file(sold_files[f])
    /\ UNCHANGED <<done, sold_files, unsold_rows, unsold_outcome>>
    /\ UNCHANGED <<fillVars, aggVars, joinVars, dateVars, loadVars, periodVars, poolVars, cacheVars, labelVars, latestVars, compareVars, refreshVars, uploadVars>>

\* line 407, after the pool
UnsoldFilter ==
    /\ "unsold_submit" \in done /\ "unsold" \notin done
    /\ pending = {}
    /\ done' = done \cup {"unsold"}
    /\ unsold_rows' = filter_unsold(bc_df, sold_product_codes)
    /\ unsold_outcome' = "filtered"
    /\ UNCHANGED <<sold_files, sold_product_codes, pending>>
    /\ UNCHANGED <<fillVars, aggVars, joinVars, dateVars, loadVars, periodVars, poolVars, cacheVars, labelVars, latestVars, compareVars, refreshVars, uploadVars>>

NextUnsold ==
    \/ UnsoldSingleFile
    \/ UnsoldSubmit
    \/ \E f \in 1..MaxSold : UnsoldCollect(f)
    \/ UnsoldFilter

SpecUnsold == InitUnsold /\ [][NextUnsold]_vars

\* the product code is the code of a line item of one of the selected files
SoldInSomeFile(code) ==
    \E f \in 1..Len(sold_files) :
        \E c \in sold_files[f].codes : to_text(c) = to_text(code)

\* every selected file can be read and has the 產品代號 column
SoldFilesWellFormed ==
    \A f \in 1..Len(sold_files) : sold_files[f].readable /\ sold_files[f].column

\* C24: the rows of the "in stock but unsold" filter are exactly the inventory
\* rows with a quantity above 0 whose product code is in none of the selected
\* sales files, for one file and for several files in every completion order.
C24_UnsoldRows ==
    ("unsold" \in done /\ SoldFilesWellFormed) =>
        /\ unsold_outcome = "filtered"
        /\ unsold_rows = SelectSeq(bc_df, LAMBDA r : r.qty > 0 /\ ~SoldInSomeFile(r.product_code))

(***************************************************************************)
(* The inventory file of the sales dashboard (sales.py lines 794-813).  A  *)
(* file of the inventory directory is [date, xlsx]: the date its name ends *)
(* with, which is also the order in which the files were written, and      *)
(* whether its name ends with ".xlsx".  listing is os.listdir of the       *)
(* directory, which gives the names in an order of the file system.        *)
(***************************************************************************)
MaxListed == 3
MaxStamp == 3

DirFiles == [date : 1..MaxStamp, xlsx : BOOLEAN]

Listings ==
    {l \in SeqsUpTo(DirFiles, MaxListed) : \A i, j \in 1..Len(l) : i # j => l[i] # l[j]}

\* [f for f in os.listdir(bc_products_dir) if f.endswith('.xlsx')]
bc_excel_files(names) == SelectSeq(names, LAMBDA f : f.xlsx)

\* latest_bc_file = bc_excel_files[-1], when the list is not empty
latest_bc_file(names) ==
    LET files == bc_excel_files(names)
    IN  IF files = <<>> THEN <<>> ELSE <<files[Len(files)]>>

InitLatest ==
    /\ done = {}
    /\ IdleFill /\ IdleAgg /\ IdleJoin /\ IdleDates /\ IdleLoad /\ IdlePeriods /\ IdlePool
    /\ IdleCache /\ IdleLabel /\ IdleUnsold /\ IdleCompare /\ IdleRefresh /\ IdleUpload
    /\ listing \in Listings
    /\ inventory_file = <<>>

\* the dashboard picks the inventory file whose 數量 fills the 庫存 column
SalesPickInventoryFile ==
    /\ "pick" \notin done
    /\ done' = done \cup {"pick"}
    /\ inventory_file' = latest_bc_file(listing)
    /\ UNCHANGED listing
    /\ UNCHANGED <<fillVars, aggVars, joinVars, dateVars, loadVars, periodVars, poolVars, cacheVars, labelVars, unsoldVars, compareVars, refreshVars, uploadVars>>

NextLatest == SalesPickInventoryFile

SpecLatest == InitLatest /\ [][NextLatest]_vars

\* C26: the inventory file of the sales dashboard is the most recent .xlsx
\* file of the inventory directory, in whatever order the directory lists
\* its files.
C26_LatestInventoryFile ==
    "pick" \in done =>
        \A i \in 1..Len(listing) :
            listing[i].xlsx =>
                inventory_file # <<>> /\ listing[i].date <= inventory_file[1].date

(***************************************************************************)
(* The inventory comparison of fixed_sales_dashboard.display_sales_-       *)
(* dashboard (lines 3-11 and 194-321) under Streamlit's execution model:   *)
(* every click on a widget runs the script again from the top, and         *)
(* st.button returns True only in the run its own click started and only   *)
(* where the script reaches its call.  session is st.session_state, a key  *)
(* holding <<>> when it is not set; screen is the buttons the last run     *)
(* drew; clicked is the button whose click started the pending run         *)
(* ("load": the page was opened, "": no run is pending); clicks is the     *)
(* history of the user's clicks.                                           *)
(***************************************************************************)
MaxClicks == 4

SessionKeys == {"bc_inventory_matched", "bc_inventory_data", "match_stats",
                "product_summary_with_inventory", "file_selection_active",
                "selected_bc_file"}

\* the inventory directory: its .xlsx files, and whether bc_products.load_data
\* returns a table with rows for them
InventoryDirs == [files : SUBSET (1..2), loadable : BOOLEAN]

\* if key not in st.session_state: st.session_state[key] = value
setdefault(state, key, value) ==
    IF state[key] = <<>> THEN [state EXCEPT ![key] = <<value>>] ELSE state

\* lines 3-11
init_session(state) ==
    setdefault(setdefault(setdefault(setdefault(state,
        "bc_inventory_matched", FALSE),
        "bc_inventory_data", "None"),
        "match_stats", "None"),
        "product_summary_with_inventory", "None")

\* lines 259-315: the inventory is loaded and merged, the results are stored
store_match(state) ==
    [state EXCEPT !["product_summary_with_inventory"] = <<"merged_df">>,
                  !["bc_inventory_data"] = <<"bc_df">>,
                  !["match_stats"] = <<"stats">>,
                  !["bc_inventory_matched"] = <<TRUE>>]

\* lines 210-214: the clear button
clear_match(state) ==
    [state EXCEPT !["bc_inventory_matched"] = <<FALSE>>,
                  !["bc_inventory_data"] = <<"None">>,
                  !["match_stats"] = <<"None">>,
                  !["product_summary_with_inventory"] = <<"None">>]

\* one run of the script started by a click on b: the session state it
\* leaves, the buttons it draws and whether it ends in st.experimental_rerun().
\* A button is True only in the run its own click started, so the confirm
\* button, which is drawn inside `if comparison_button:`, is never reached in
\* the run that its click starts.
run_script(state, dir, b) ==
    LET s0 == init_session(state)
        clear_button == b = "clear"
        comparison_button == b = "compare"
        submit_button == b = "confirm"
    IN  IF s0["bc_inventory_matched"] = <<TRUE>>
        THEN IF clear_button
             THEN [session |-> clear_match(s0), screen |-> {"clear"}, rerun |-> TRUE]
             ELSE [session |-> s0, screen |-> {"clear"}, rerun |-> FALSE]
        ELSE IF ~comparison_button
        THEN [session |-> s0, screen |-> {"compare"}, rerun |-> FALSE]
        ELSE LET s1 == setdefault(s0, "file_selection_active", TRUE)
             IN  IF dir.files = {}
                 THEN [session |-> s1, screen |-> {"compare"}, rerun |-> FALSE]
                 ELSE LET s2 == [s1 EXCEPT !["selected_bc_file"] = <<Max(dir.files)>>]
                      IN  IF submit_button /\ dir.loadable
                          THEN [session |-> store_match(s2),
                                screen |-> {"compare", "confirm"}, rerun |-> TRUE]
                          ELSE [session |-> s2,
                                screen |-> {"compare", "confirm"}, rerun |-> FALSE]

InitCompare ==
    /\ done = {}
    /\ IdleFill /\ IdleAgg /\ IdleJoin /\ IdleDates /\ IdleLoad /\ IdlePeriods /\ IdlePool
    /\ IdleCache /\ IdleLabel /\ IdleUnsold /\ IdleLatest /\ IdleRefresh /\ IdleUpload
    /\ session = [k \in SessionKeys |-> <<>>]
    /\ inventory_dir \in InventoryDirs
    /\ screen = {}
    /\ clicked = "load"
    /\ clicks = <<>>

\* the pending run of the script
RunScript ==
    /\ clicked # ""
    /\ LET r == run_script(session, inventory_dir, clicked)
       IN  /\ session' = r.session
           /\ screen' = r.screen
           /\ clicked' = IF r.rerun THEN "rerun" ELSE ""
    /\ UNCHANGED <<inventory_dir, clicks>>
    /\ UNCHANGED <<done, fillVars, aggVars, joinVars, dateVars, loadVars, periodVars, poolVars, cacheVars, labelVars, unsoldVars, latestVars, refreshVars, uploadVars>>

\* the user clicks a button that is on the screen, or another widget of the
\* page ("other"), which starts a run
Click(b) ==
    /\ clicked = ""
    /\ Len(clicks) < MaxClicks
    /\ b \in screen \cup {"other"}
    /\ clicked' = b
    /\ clicks' = Append(clicks, b)
    /\ UNCHANGED <<session, inventory_dir, screen>>
    /\ UNCHANGED <<done, fillVars, aggVars, joinVars, dateVars, loadVars, periodVars, poolVars, cacheVars, labelVars, unsoldVars, latestVars, refreshVars, uploadVars>>

NextCompare == RunScript \/ \E b \in {"compare", "confirm", "clear", "other"} : Click(b)

SpecCompare == InitCompare /\ [][NextCompare]_vars

\* a pending run of the script is run
SpecCompareFair == SpecCompare /\ WF_vars(RunScript)

\* the user clicked compare and then, on the run that followed, confirm, with
\* an inventory file that loads
ConfirmedAfterCompare ==
    /\ Len(clicks) >= 2
    /\ clicks[Len(clicks) - 1] = "compare"
    /\ clicks[Len(clicks)] = "confirm"
    /\ inventory_dir.loadable

Matched ==
    /\ session["bc_inventory_matched"] = <<TRUE>>
    /\ session["match_stats"] = <<"stats">>
    /\ session["product_summary_with_inventory"] = <<"merged_df">>

\* C27: after compare and then confirm the session eventually is matched,
\* with match_stats and product_summary_with_inventory set; and whenever
\* bc_inventory_matched is True both of them are set.
C27_ReachesMatched ==
    /\ [](session["bc_inventory_matched"] = <<TRUE>> => Matched)
    /\ ConfirmedAfterCompare ~> Matched

(***************************************************************************)
(* The refresh buttons and the two file loaders.  sales.load_data and      *)
(* bc_products.load_data are memoized on the file path alone; every module *)
(* calls both (the sales dashboard reads the inventory file for its 庫存    *)
(* column, the inventory dashboard reads sales files for the unsold        *)
(* filter).  A file is its version, which an upload or an activation that  *)
(* overwrites the path raises.  One path per loader is followed.           *)
(***************************************************************************)
MaxVersion == 2
MaxClock == 120
TickSeconds == 30

Loaders == {"sales", "bc"}

\* the ttl= of the loader's decorator
loader_ttl(l) == IF l = "sales" THEN SalesLoadTtl ELSE BcLoadTtl

\* the loaders whose .clear() the button calls
cleared_by(button) ==
    IF button = "refresh_sales" THEN {"sales"}
    ELSE IF button = "refresh_bc_data" THEN {"bc"}
    ELSE {"sales", "bc"}

RefreshButtons == {"refresh_sales", "refresh_bc_data", "refresh_integrated", "clear_all_cache"}

\* the entry of the loader's cache, when it holds one that has not expired
cached_entry(entry, l, t) ==
    IF entry # <<>> /\ t - entry[1].stored < loader_ttl(l) THEN entry ELSE <<>>

InitRefresh ==
    /\ done = {}
    /\ IdleFill /\ IdleAgg /\ IdleJoin /\ IdleDates /\ IdleLoad /\ IdlePeriods /\ IdlePool
    /\ IdleCache /\ IdleLabel /\ IdleUnsold /\ IdleLatest /\ IdleCompare /\ IdleUpload
    /\ file_version = [l \in Loaders |-> 1]
    /\ loader_cache = [l \in Loaders |-> <<>>]
    /\ clock = 0
    /\ awaiting = {}
    /\ last_load = <<>>

\* load_data(file_path) of loader l: the cached table, or the file as it is now
LoadFile(l) ==
    /\ LET hit == cached_entry(loader_cache[l], l, clock)
           table == IF hit # <<>> THEN hit[1].version ELSE file_version[l]
       IN  /\ loader_cache' =
                [loader_cache EXCEPT ![l] =
                    IF hit # <<>> THEN hit
                    ELSE <<[version |-> file_version[l], stored |-> clock]>>]
           /\ last_load' = <<[loader |-> l, table |-> table, file |-> file_version[l],
                              before |-> loader_cache[l], at |-> clock,
                              after_refresh |-> l \in awaiting]>>
    /\ awaiting' = awaiting \ {l}
    /\ UNCHANGED <<file_version, clock>>
    /\ UNCHANGED <<done, fillVars, aggVars, joinVars, dateVars, loadVars, periodVars, poolVars, cacheVars, labelVars, unsoldVars, latestVars, compareVars, uploadVars>>

\* the file of the path is overwritten by an upload or an activation
Overwrite(l) ==
    /\ file_version[l] < MaxVersion
    /\ file_version' = [file_version EXCEPT ![l] = @ + 1]
    /\ UNCHANGED <<loader_cache, clock, awaiting, last_load>>
    /\ UNCHANGED <<done, fillVars, aggVars, joinVars, dateVars, loadVars, periodVars, poolVars, cacheVars, labelVars, unsoldVars, latestVars, compareVars, uploadVars>>

\* a refresh or clear-cache button: load_data.clear() of the loaders it names
Refresh(button) ==
    /\ loader_cache' = [l \in Loaders |-> IF l \in cleared_by(button) THEN <<>> ELSE loader_cache[l]]
    /\ awaiting' = Loaders
    /\ UNCHANGED <<file_version, clock, last_load>>
    /\ UNCHANGED <<done, fillVars, aggVars, joinVars, dateVars, loadVars, periodVars, poolVars, cacheVars, labelVars, unsoldVars, latestVars, compareVars, uploadVars>>

Elapse ==
    /\ clock + TickSeconds <= MaxClock
    /\ clock' = clock + TickSeconds
    /\ UNCHANGED <<file_version, loader_cache, awaiting, last_load>>
    /\ UNCHANGED <<done, fillVars, aggVars, joinVars, dateVars, loadVars, periodVars, poolVars, cacheVars, labelVars, unsoldVars, latestVars, compareVars, uploadVars>>

NextRefresh ==
    \/ \E l \in Loaders : LoadFile(l)
    \/ \E l \in Loaders : Overwrite(l)
    \/ \E b \in RefreshButtons : Refresh(b)
    \/ Elapse

SpecRefresh == InitRefresh /\ [][NextRefresh]_vars

\* C28: the first load of a path after any refresh or clear-cache button
\* returns the file as it is then; a load that follows an earlier load of the
\* path with no such button in between and less than the time-to-live later
\* returns the table of the earlier load.
C28_RefreshRereads ==
    last_load # <<>> =>
        LET ll == last_load[1]
        IN  /\ ll.after_refresh => ll.table = ll.file
            /\ (~ll.after_refresh /\ ll.before # <<>>
                    /\ ll.at - ll.before[1].stored < loader_ttl(ll.loader))
                 => ll.table = ll.before[1].version

(***************************************************************************)
(* The upload page of app.py and the period selector of the sales module. *)
(* A sales file saved by the upload page lands in the "sales data"         *)
(* directory under the name the page chose; the selector lists the         *)
(* directory newest first and keys a dict by the label of each name.       *)
(***************************************************************************)
MaxStored == 3

\* the word 銷貨單毛利分析表 of the file names, written in ASCII
SalesWord == <<"S", "a", "l", "e", "s">>
SalesPrefix == SalesWord \o <<"_">>
ReportWord == <<"r", "e", "p", "o", "r", "t">>
JanStart == <<"2", "0", "2", "5", "0", "1", "0", "1">>
JanMid == <<"2", "0", "2", "5", "0", "1", "1", "6">>
FebStart == <<"2", "0", "2", "5", "0", "2", "0", "1">>
FebEnd == <<"2", "0", "2", "5", "0", "2", "2", "8">>

\* uploaded_file.name: the type filter of the uploader admits .xlsx only
UploadedNames ==
    {join_tokens(<<SalesWord, JanStart, DateToken>>) \o Ext,
     join_tokens(<<SalesWord, JanMid, DateToken>>) \o Ext,
     join_tokens(<<SalesWord, FebStart, FebEnd>>) \o Ext,
     ReportWord \o Ext}

\* now.strftime("%Y%m%d") on the days of the uploads
Todays == {FebStart, FebEnd}

\* the name the upload page saves a sales file under
upload_filename(name, today) ==
    IF ~starts_with(name, SalesPrefix)
    THEN join_tokens(<<SalesWord, today>>) \o Ext
    ELSE name

\* open(dst_path, "wb"): the file is created or overwritten and is now the
\* most recently modified one of the directory
write_file(dir, filename) ==
    <<filename>> \o SelectSeq(dir, LAMBDA f : f # filename)

\* {extract_date_from_filename(file): file for file in excel_files}: a key
\* that comes again keeps its place and takes the new value
RECURSIVE dict_by_label(_)
dict_by_label(files) ==
    IF files = <<>> THEN <<>>
    ELSE LET rest == dict_by_label(SubSeq(files, 1, Len(files) - 1))
             file == files[Len(files)]
             label == extract_date_from_filename(file).text
         IN  IF \E k \in 1..Len(rest) : rest[k][1] = label
             THEN [k \in 1..Len(rest) |->
                     IF rest[k][1] = label THEN <<label, file>> ELSE rest[k]]
             ELSE Append(rest, <<label, file>>)

InitUpload ==
    /\ done = {}
    /\ IdleFill /\ IdleAgg /\ IdleJoin /\ IdleDates /\ IdleLoad /\ IdlePeriods /\ IdlePool
    /\ IdleCache /\ IdleLabel /\ IdleUnsold /\ IdleLatest /\ IdleCompare /\ IdleRefresh
    /\ sales_dir = <<>>
    /\ excel_files = <<>>
    /\ file_options = <<>>

\* the "儲存檔案" button of the upload tab, file type 銷貨單毛利分析表
UploadSave(name, today) ==
    /\ Len(write_file(sales_dir, upload_filename(name, today))) <= MaxStored
    /\ sales_dir' = write_file(sales_dir, upload_filename(name, today))
    /\ UNCHANGED <<excel_files, file_options>>
    /\ UNCHANGED <<done, fillVars, aggVars, joinVars, dateVars, loadVars, periodVars, poolVars, cacheVars, labelVars, unsoldVars, latestVars, compareVars, refreshVars>>

\* run_sales_analysis up to the selector: with no file it shows an error and
\* returns
SalesPeriodSelector ==
    /\ sales_dir # <<>>
    /\ excel_files' = sales_dir
    /\ file_options' = dict_by_label(sales_dir)
    /\ UNCHANGED sales_dir
    /\ UNCHANGED <<done, fillVars, aggVars, joinVars, dateVars, loadVars, periodVars, poolVars, cacheVars, labelVars, unsoldVars, latestVars, compareVars, refreshVars>>

NextUpload ==
    \/ \E name \in UploadedNames, today \in Todays : UploadSave(name, today)
    \/ SalesPeriodSelector

SpecUpload == InitUpload /\ [][NextUpload]_vars

\* a label of the form YYYY-MM
is_period_label(text) ==
    /\ Len(text) = 7
    /\ text[5] = "-"
    /\ \A i \in {1, 2, 3, 4, 6, 7} : \E d \in 1..10 : text[i] = DigitChars[d]

\* C30: once the selector is built from the directory as it is, every stored
\* sales file is the file of an entry whose label has the form YYYY-MM (so
\* no two stored files share an entry).
C30_EveryStoredFileOffered ==
    (excel_files # <<>> /\ excel_files = sales_dir) =>
        \A i \in 1..Len(sales_dir) :
            \E k \in 1..Len(file_options) :
                /\ file_options[k][2] = sales_dir[i]
                /\ is_period_label(file_options[k][1])

====
